---------------------------- MODULE Spec2Model ----------------------------
(***************************************************************************)
(* Model of the Loca integration: the API client (custom_components/loca/  *)
(* api.py) and the poll cycle of the data update coordinator               *)
(* (custom_components/loca/coordinator.py).                                *)
(*                                                                         *)
(* Texts are sequences of one-character strings, so that str.lower() and   *)
(* the `in` substring test of the error classification are computed.       *)
(* JSON values are records of one uniform shape (JNull, JInt, JStr, JList, *)
(* JDict), so that the isinstance / `in` / truthiness tests of the         *)
(* fetchers are computed on the response body.                             *)
(***************************************************************************)
EXTENDS Integers, Sequences, FiniteSets, TLC

(***************************************************************************)
(* Bounds of the model.                                                    *)
(***************************************************************************)
MaxEntries == 3
MaxDevices == 2
MaxGroups == 1
MaxEmpty == 4

----------------------------------------------------------------------------
(***************************************************************************)
(* Texts.                                                                  *)
(***************************************************************************)
TXT_auth == <<"a","u","t","h">>
TXT_401 == <<"4","0","1">>
TXT_403 == <<"4","0","3">>
TXT_unauthorized == <<"u","n","a","u","t","h","o","r","i","z","e","d">>
TXT_forbidden == <<"f","o","r","b","i","d","d","e","n">>

\* const.py, APIConstants.AUTH_ERROR_TERMS
AUTH_ERROR_TERMS == <<TXT_auth, TXT_401, TXT_403, TXT_unauthorized, TXT_forbidden>>

TXT_ok == <<"o","k">>
TXT_None == <<"N","o","n","e">>
TXT_quote == <<"'">>
TXT_float_prefix ==
    <<"c","o","u","l","d"," ","n","o","t"," ","c","o","n","v","e","r","t"," ",
      "s","t","r","i","n","g"," ","t","o"," ","f","l","o","a","t",":"," ","'">>
TXT_int_prefix ==
    <<"i","n","v","a","l","i","d"," ","l","i","t","e","r","a","l"," ","f","o","r"," ",
      "i","n","t","(",")"," ","w","i","t","h"," ","b","a","s","e"," ","1","0",":"," ","'">>
TXT_no_get ==
    <<"'"," ","o","b","j","e","c","t"," ","h","a","s"," ","n","o"," ",
      "a","t","t","r","i","b","u","t","e"," ","'","g","e","t","'">>
TXT_float_arg ==
    <<"f","l","o","a","t","(",")"," ","a","r","g","u","m","e","n","t"," ","m","u","s","t"," ",
      "b","e"," ","a"," ","s","t","r","i","n","g"," ","o","r"," ","a"," ","r","e","a","l"," ",
      "n","u","m","b","e","r",","," ","n","o","t"," ","'">>
TXT_int_arg ==
    <<"i","n","t","(",")"," ","a","r","g","u","m","e","n","t"," ","m","u","s","t"," ",
      "b","e"," ","a"," ","s","t","r","i","n","g",","," ","a"," ","b","y","t","e","s","-",
      "l","i","k","e"," ","o","b","j","e","c","t"," ","o","r"," ","a"," ","r","e","a","l"," ",
      "n","u","m","b","e","r",","," ","n","o","t"," ","'">>
TXT_len_arg ==
    <<"o","b","j","e","c","t"," ","o","f"," ","t","y","p","e"," ","'">>
TXT_has_no_len == <<"'"," ","h","a","s"," ","n","o"," ","l","e","n","(",")">>
TXT_Authentication_failed ==
    <<"A","u","t","h","e","n","t","i","c","a","t","i","o","n"," ","f","a","i","l","e","d">>
TXT_Authentication_required ==
    <<"A","u","t","h","e","n","t","i","c","a","t","i","o","n"," ",
      "r","e","q","u","i","r","e","d">>
TXT_Authentication_error ==
    <<"A","u","t","h","e","n","t","i","c","a","t","i","o","n"," ","e","r","r","o","r",":"," ">>
TXT_Error_communicating ==
    <<"E","r","r","o","r"," ","c","o","m","m","u","n","i","c","a","t","i","n","g"," ",
      "w","i","t","h"," ","A","P","I",":"," ">>

UpperCase == <<"A","B","C","D","E","F","G","H","I","J","K","L","M",
               "N","O","P","Q","R","S","T","U","V","W","X","Y","Z">>
LowerCase == <<"a","b","c","d","e","f","g","h","i","j","k","l","m",
               "n","o","p","q","r","s","t","u","v","w","x","y","z">>
Digits == <<"0","1","2","3","4","5","6","7","8","9">>

\* str.lower() on one character
LowerChar(ch) ==
    IF \E k \in 1..26 : UpperCase[k] = ch
    THEN LowerCase[CHOOSE k \in 1..26 : UpperCase[k] = ch]
    ELSE ch

\* str.lower()
Lower(text) == [k \in 1..Len(text) |-> LowerChar(text[k])]

\* `sub in text` on str
Contains(sub, text) ==
    \E k \in 0..(Len(text) - Len(sub)) :
        \A j \in 1..Len(sub) : text[k + j] = sub[j]

IsDigitChar(ch) == \E k \in 1..10 : Digits[k] = ch
DigitValue(ch) == (CHOOSE k \in 1..10 : Digits[k] = ch) - 1

\* str.isdigit()
IsDigitText(text) == Len(text) > 0 /\ \A k \in 1..Len(text) : IsDigitChar(text[k])

RECURSIVE DigitsToNat(_)
DigitsToNat(text) ==
    IF Len(text) = 0 THEN 0
    ELSE 10 * DigitsToNat(SubSeq(text, 1, Len(text) - 1)) + DigitValue(text[Len(text)])

RECURSIVE NatToText(_)
NatToText(n) ==
    IF n < 10 THEN <<Digits[n + 1]>>
    ELSE NatToText(n \div 10) \o <<Digits[(n % 10) + 1]>>

\* str(n) for an int
IntToText(n) == IF n < 0 THEN <<"-">> \o NatToText(0 - n) ELSE NatToText(n)

\* The texts int() and float() accept here: an optional sign and decimal digits.
IsIntText(text) ==
    IF Len(text) > 0 /\ text[1] \in {"-", "+"}
    THEN IsDigitText(Tail(text))
    ELSE IsDigitText(text)

TextToInt(text) ==
    IF text[1] = "-" THEN 0 - DigitsToNat(Tail(text))
    ELSE IF text[1] = "+" THEN DigitsToNat(Tail(text))
    ELSE DigitsToNat(text)

----------------------------------------------------------------------------
(***************************************************************************)
(* JSON values as Python sees them after response.json().  Every value has *)
(* the same five fields: t is the Python type, i the int (or bool) value,  *)
(* s the text of a str, f the items of a dict, a the items of a list.      *)
(***************************************************************************)
NoFields == [k \in {} |-> 0]
JNull == [t |-> "NoneType", i |-> 0, s |-> <<>>, f |-> NoFields, a |-> <<>>]
JInt(n) == [t |-> "int", i |-> n, s |-> <<>>, f |-> NoFields, a |-> <<>>]
JStr(text) == [t |-> "str", i |-> 0, s |-> text, f |-> NoFields, a |-> <<>>]
JList(items) == [t |-> "list", i |-> 0, s |-> <<>>, f |-> NoFields, a |-> items]
JDict(fields) == [t |-> "dict", i |-> 0, s |-> <<>>, f |-> fields, a |-> <<>>]
EmptyList == JList(<<>>)
EmptyDict == JDict(NoFields)

\* The text of a dict key (keys are written as strings in the model).
KeyText(k) ==
    CASE k = "Asset" -> <<"A","s","s","e","t">>
      [] k = "History" -> <<"H","i","s","t","o","r","y">>
      [] k = "Spot" -> <<"S","p","o","t">>
      [] k = "id" -> <<"i","d">>
      [] k = "label" -> <<"l","a","b","e","l">>
      [] k = "group" -> <<"g","r","o","u","p">>
      [] k = "StatusList" -> <<"S","t","a","t","u","s","L","i","s","t">>
      [] k = "status" -> <<"s","t","a","t","u","s">>
      [] k = "devices" -> <<"d","e","v","i","c","e","s">>
      [] k = "assets" -> <<"a","s","s","e","t","s">>
      [] k = "groups" -> <<"g","r","o","u","p","s">>
      [] k = "locations" -> <<"l","o","c","a","t","i","o","n","s">>
      [] k = "response" -> <<"r","e","s","p","o","n","s","e">>
      [] k = "UserLocationList" -> <<"U","s","e","r","L","o","c","a","t","i","o","n","L","i","s","t">>
      [] k = "message" -> <<"m","e","s","s","a","g","e">>
      [] k = "error" -> <<"e","r","r","o","r">>
      [] k = "description" -> <<"d","e","s","c","r","i","p","t","i","o","n">>
      [] k = "detail" -> <<"d","e","t","a","i","l">>
      [] k = "reason" -> <<"r","e","a","s","o","n">>
      [] k = "user" -> <<"u","s","e","r">>
      [] k = "12345" -> <<"1","2","3","4","5">>
      [] k = "asset_1" -> <<"a","s","s","e","t","_","1">>
      [] k = "a" -> <<"a">>

\* bool(v)
Truthy(v) ==
    CASE v.t = "NoneType" -> FALSE
      [] v.t = "int" -> v.i # 0
      [] v.t = "str" -> Len(v.s) > 0
      [] v.t = "list" -> Len(v.a) > 0
      [] v.t = "dict" -> DOMAIN v.f # {}

IsList(v) == v.t = "list"
IsDict(v) == v.t = "dict"

\* `key in d` for a dict d
HasKey(d, k) == k \in DOMAIN d.f

\* d.get(key, default) for a dict d
Get(d, k, default) == IF k \in DOMAIN d.f THEN d.f[k] ELSE default

\* v == "text" for a str literal
EqualsText(v, text) == v.t = "str" /\ v.s = text

(***************************************************************************)
(* Results of operations that may raise.                                   *)
(***************************************************************************)
NoExc == [type |-> "none", text |-> <<>>]
Exc(type, text) == [type |-> type, text |-> text]
Ok(v) == [raised |-> FALSE, val |-> v, exc |-> NoExc]
Raise(type, text) == [raised |-> TRUE, val |-> JNull, exc |-> Exc(type, text)]

TypeText(v) ==
    CASE v.t = "NoneType" -> <<"N","o","n","e","T","y","p","e">>
      [] v.t = "int" -> <<"i","n","t">>
      [] v.t = "str" -> <<"s","t","r">>
      [] v.t = "list" -> <<"l","i","s","t">>
      [] v.t = "dict" -> <<"d","i","c","t">>

\* v.get(...) where v is not a dict
NoGetError(v) == Raise("AttributeError", TXT_quote \o TypeText(v) \o TXT_no_get)

\* float(v); the numbers of the model are integers
PyFloat(v) ==
    CASE v.t = "int" -> Ok(v.i)
      [] v.t = "str" ->
           IF IsIntText(v.s) THEN Ok(TextToInt(v.s))
           ELSE Raise("ValueError", TXT_float_prefix \o v.s \o TXT_quote)
      [] OTHER -> Raise("TypeError", TXT_float_arg \o TypeText(v) \o TXT_quote)

\* int(v)
PyInt(v) ==
    CASE v.t = "int" -> Ok(v.i)
      [] v.t = "str" ->
           IF IsIntText(v.s) THEN Ok(TextToInt(v.s))
           ELSE Raise("ValueError", TXT_int_prefix \o v.s \o TXT_quote)
      [] OTHER -> Raise("TypeError", TXT_int_arg \o TypeText(v) \o TXT_quote)

\* str(v) for the ids the vendor sends: an int, a str or null
PyStr(v) ==
    CASE v.t = "int" -> IntToText(v.i)
      [] v.t = "str" -> v.s
      [] v.t = "NoneType" -> TXT_None

\* len(v)
PyLen(v) ==
    CASE v.t = "list" -> Ok(Len(v.a))
      [] v.t = "dict" -> Ok(Cardinality(DOMAIN v.f))
      [] v.t = "str" -> Ok(Len(v.s))
      [] OTHER -> Raise("TypeError", TXT_len_arg \o TypeText(v) \o TXT_has_no_len)

\* The keys of a dict in some order (a set turned into a sequence).
RECURSIVE SetToSeq(_)
SetToSeq(S) ==
    IF S = {} THEN <<>>
    ELSE LET x == CHOOSE y \in S : TRUE IN <<x>> \o SetToSeq(S \ {x})

\* What `for x in v` yields: the items of a list, the keys of a dict, the
\* characters of a str.
IterItems(v) ==
    CASE v.t = "list" -> v.a
      [] v.t = "dict" -> [k \in 1..Cardinality(DOMAIN v.f) |->
                             JStr(KeyText(SetToSeq(DOMAIN v.f)[k]))]
      [] v.t = "str" -> [k \in 1..Len(v.s) |-> JStr(<<v.s[k]>>)]

----------------------------------------------------------------------------
(***************************************************************************)
(* The API client, api.py: what each call makes of an HTTP response.       *)
(* A response r has err = TRUE when session.post raised (timeout,          *)
(* connection error); otherwise status is the HTTP status, json_ok tells   *)
(* whether response.json() parses, and data is the parsed body.            *)
(***************************************************************************)
TXT_asset == <<"a","s","s","e","t">>

HttpError == [err |-> TRUE, status |-> 0, json_ok |-> FALSE, data |-> JNull]
HttpStatus(code) == [err |-> FALSE, status |-> code, json_ok |-> FALSE, data |-> JNull]
HttpNotJson == [err |-> FALSE, status |-> 200, json_ok |-> FALSE, data |-> JNull]
HttpJson(body) == [err |-> FALSE, status |-> 200, json_ok |-> TRUE, data |-> body]

\* list(data.values())
DictValues(d) ==
    [k \in 1..Cardinality(DOMAIN d.f) |-> d.f[SetToSeq(DOMAIN d.f)[k]]]

\* authenticate(), lines 95-149: the login succeeded
authenticate_success(r) ==
    /\ ~r.err
    /\ r.status = 200
    /\ r.json_ok
    /\ IsDict(r.data)
    /\ Truthy(Get(r.data, "user", JNull))
    /\ IsDict(Get(r.data, "user", JNull))

\* logout(), lines 158-178: the logout succeeded
logout_success(r) ==
    /\ ~r.err
    /\ r.status = 200
    /\ r.json_ok
    /\ IsDict(r.data)
    /\ EqualsText(Get(r.data, "status", JNull), TXT_ok)

\* get_assets(), lines 188-236: the value returned
get_assets_result(r) ==
    IF r.err \/ r.status # 200 \/ ~r.json_ok THEN EmptyList
    ELSE LET data == r.data
             assets ==
                 IF IsList(data) THEN data
                 ELSE IF IsDict(data) /\ HasKey(data, "assets")
                 THEN Get(data, "assets", EmptyList)
                 ELSE IF IsDict(data)
                         /\ \E k \in DOMAIN data.f :
                               \/ IsDigitText(KeyText(k))
                               \/ Contains(TXT_asset, Lower(KeyText(k)))
                 THEN IF \A k \in DOMAIN data.f : IsDict(data.f[k])
                      THEN JList(DictValues(data))
                      ELSE EmptyList
                 ELSE JNull
         IN  IF assets.t # "NoneType"
             THEN IF PyLen(assets).raised THEN EmptyList ELSE assets
             ELSE EmptyList

\* get_user_locations(), lines 246-304: the value returned
get_user_locations_result(r) ==
    IF r.err \/ r.status # 200 \/ ~r.json_ok THEN EmptyList
    ELSE LET data == r.data
             response_obj == Get(data, "response", JNull)
             locations == Get(data, "locations", JNull)
         IN  IF IsList(data) THEN data
             ELSE IF IsDict(data)
             THEN IF /\ Truthy(response_obj) /\ IsDict(response_obj)
                     /\ HasKey(response_obj, "UserLocationList")
                     /\ IsList(response_obj.f["UserLocationList"])
                  THEN response_obj.f["UserLocationList"]
                  ELSE IF /\ EqualsText(Get(data, "status", JNull), TXT_ok)
                          /\ Truthy(locations)
                  THEN IF PyLen(locations).raised THEN EmptyList ELSE locations
                  ELSE IF Truthy(locations) /\ IsList(locations)
                  THEN locations
                  ELSE EmptyList
             ELSE EmptyList

\* get_status_list(), lines 314-369: the value returned
get_status_list_devices_first(r) ==
    IF r.err \/ r.status # 200 \/ ~r.json_ok THEN EmptyList
    ELSE LET data == r.data
             devs == Get(data, "devices", JNull)
         IN  IF IsList(data) THEN data
             ELSE IF IsDict(data)
             THEN IF Truthy(devs) /\ IsList(devs)
                  THEN devs
                  ELSE IF /\ EqualsText(Get(data, "status", JNull), TXT_ok)
                          /\ Truthy(devs)
                  THEN IF PyLen(devs).raised THEN EmptyList ELSE devs
                  ELSE IF HasKey(data, "StatusList") /\ IsList(data.f["StatusList"])
                  THEN data.f["StatusList"]
                  ELSE EmptyList
             ELSE EmptyList
get_status_list_result(r) ==
    IF r.err \/ r.status # 200 \/ ~r.json_ok THEN EmptyList
    ELSE LET data == r.data
             devs == Get(data, "devices", JNull)
         IN  IF IsList(data) THEN data
             ELSE IF IsDict(data)
             THEN IF HasKey(data, "StatusList") /\ IsList(data.f["StatusList"])
                  THEN data.f["StatusList"]
                  ELSE IF /\ EqualsText(Get(data, "status", JNull), TXT_ok)
                          /\ Truthy(devs)
                  THEN IF PyLen(devs).raised THEN EmptyList ELSE devs
                  ELSE IF Truthy(devs) /\ IsList(devs)
                  THEN devs
                  ELSE EmptyList
             ELSE EmptyList

\* get_groups(), lines 379-418: the value returned
get_groups_result(r) ==
    IF r.err \/ r.status # 200 \/ ~r.json_ok THEN EmptyList
    ELSE LET data == r.data
         IN  IF IsDict(data) /\ HasKey(data, "groups") /\ IsList(data.f["groups"])
             THEN data.f["groups"]
             ELSE IF ~(IsDict(data) /\ HasKey(data, "groups")) /\ IsList(data)
             THEN data
             ELSE EmptyList

Fetchers == {"get_assets", "get_status_list", "get_user_locations", "get_groups"}

fetcher_result(f, r) ==
    CASE f = "get_assets" -> get_assets_result(r)
      [] f = "get_status_list" -> get_status_list_result(r)
      [] f = "get_user_locations" -> get_user_locations_result(r)
      [] f = "get_groups" -> get_groups_result(r)

\* const.py, lines 13-18
Endpoint(f) ==
    CASE f = "get_assets" -> "Assets.json"
      [] f = "get_status_list" -> "StatusList.json"
      [] f = "get_user_locations" -> "UserLocationList.json"
      [] f = "get_groups" -> "Groups.json"

----------------------------------------------------------------------------
(***************************************************************************)
(* The group cache and the record normalizer, api.py.  A cache is a        *)
(* function from int group ids to labels; a devices mapping is a function  *)
(* from device_id texts to device records.                                 *)
(***************************************************************************)
EmptyMap == [k \in {} |-> 0]

\* d[key] = value on a Python dict
Put(d, key, value) ==
    [k \in (DOMAIN d) \cup {key} |-> IF k = key THEN value ELSE d[k]]

\* update_groups_cache(), lines 423-428: the loop over the fetched groups,
\* from position n with the cache built so far.  The result holds the cache
\* as the loop left it, also when the loop raised.
RECURSIVE groups_loop(_, _, _)
groups_loop(groups, n, cache) ==
    IF n > Len(groups) THEN [raised |-> FALSE, cache |-> cache, exc |-> NoExc]
    ELSE LET group == groups[n]
         IN  IF ~IsDict(group)
             THEN [raised |-> TRUE, cache |-> cache, exc |-> NoGetError(group).exc]
             ELSE LET group_id == Get(group, "id", JNull)
                      group_label == Get(group, "label", JStr(<<>>))
                  IN  IF group_id.t = "NoneType"
                      THEN groups_loop(groups, n + 1, cache)
                      ELSE IF PyInt(group_id).raised
                      THEN [raised |-> TRUE, cache |-> cache,
                            exc |-> PyInt(group_id).exc]
                      ELSE groups_loop(groups, n + 1,
                                       Put(cache, PyInt(group_id).val, group_label))

\* update_groups_cache(), lines 422-429, after get_groups() returned `groups`:
\* the cache is cleared, then rebuilt
update_groups_cache_body(groups) == groups_loop(IterItems(groups), 1, EmptyMap)

\* get_group_name(), lines 431-435
get_group_name(cache, group_id) ==
    IF group_id.t = "NoneType" THEN Ok(JStr(<<>>))
    ELSE IF PyInt(group_id).raised THEN PyInt(group_id)
    ELSE IF PyInt(group_id).val \in DOMAIN cache
    THEN Ok(cache[PyInt(group_id).val])
    ELSE Ok(JStr(<<>>))

TXT_Loca_Device == <<"L","o","c","a"," ","D","e","v","i","c","e"," ">>
TXT_space == <<" ">>
TXT_comma_space == <<",", " ">>
TXT_sequence_item ==
    <<"s","e","q","u","e","n","c","e"," ","i","t","e","m"," ">>
TXT_expected_str ==
    <<":"," ","e","x","p","e","c","t","e","d"," ","s","t","r"," ",
      "i","n","s","t","a","n","c","e",","," ">>
TXT_found == <<" ","f","o","u","n","d">>

\* sep.join(texts) for a list of texts
RECURSIVE JoinTexts(_, _)
JoinTexts(sep, texts) ==
    IF Len(texts) = 0 THEN <<>>
    ELSE IF Len(texts) = 1 THEN texts[1]
    ELSE texts[1] \o sep \o JoinTexts(sep, Tail(texts))

\* sep.join(items): TypeError at the first item that is not a str
PyJoin(sep, items) ==
    IF \E i \in 1..Len(items) : items[i].t # "str"
    THEN LET i == CHOOSE i \in 1..Len(items) :
                     /\ items[i].t # "str"
                     /\ \A j \in 1..(i - 1) : items[j].t = "str"
         IN  Raise("TypeError",
                   TXT_sequence_item \o NatToText(i - 1) \o TXT_expected_str
                     \o TypeText(items[i]) \o TXT_found)
    ELSE Ok(JStr(JoinTexts(sep, [i \in 1..Len(items) |-> items[i].s])))

\* The address of lines 480-506 for a spot that is a dict or falsy: the parts
\* are appended in the order street(+number), zipcode/city, country.
address_keeps_empty_parts(spot) ==
    IF ~Truthy(spot) THEN Ok(JNull)
    ELSE PyJoin(TXT_comma_space,
                <<JStr(PyStr(Get(spot, "street", JStr(<<>>)))),
                  JStr(PyStr(Get(spot, "zipcode", JStr(<<>>)))),
                  JStr(PyStr(Get(spot, "country", JStr(<<>>))))>>)
address(spot) ==
    IF ~Truthy(spot) THEN Ok(JNull)
    ELSE
    LET street == Get(spot, "street", JNull)
        number == Get(spot, "number", JNull)
        zipcode == Get(spot, "zipcode", JNull)
        city == Get(spot, "city", JNull)
        country == Get(spot, "country", JNull)
        street_number ==
            IF Truthy(street) /\ Truthy(number)
            THEN <<JStr(PyStr(street) \o TXT_space \o PyStr(number))>>
            ELSE IF Truthy(street) THEN <<street>>
            ELSE <<>>
        zipcode_city == (IF Truthy(zipcode) THEN <<zipcode>> ELSE <<>>)
                        \o (IF Truthy(city) THEN <<city>> ELSE <<>>)
        joined == PyJoin(TXT_space, zipcode_city)
    IN
    IF zipcode_city # <<>> /\ joined.raised THEN joined
    ELSE
    LET address_parts ==
            street_number
            \o (IF zipcode_city # <<>> THEN <<joined.val>> ELSE <<>>)
            \o (IF Truthy(country) THEN <<country>> ELSE <<>>)
    IN  IF address_parts # <<>> THEN PyJoin(TXT_comma_space, address_parts)
        ELSE Ok(JNull)

\* `int(v) if v else 0`-style coercion of lines 520, 526, 527
IntOrDefault(v, default) == IF Truthy(v) THEN PyInt(v) ELSE Ok(default)

\* parse_status_as_device(), lines 437-548.  Modelled fields of the result:
\* device_id, name, latitude, longitude, last_seen (as epoch seconds),
\* battery_level, gps_accuracy, address, speed, satellites, signal_strength, group_id,
\* group_name.  The steps are taken in
\* the order of the source, so the first one that raises decides the exception.
parse_status_as_device(cache, status_entry) ==
    IF ~IsDict(status_entry) THEN NoGetError(status_entry)
    ELSE
    LET asset == Get(status_entry, "Asset", EmptyDict)
        history == Get(status_entry, "History", EmptyDict)
        spot == Get(status_entry, "Spot", EmptyDict)
    IN
    IF ~IsDict(asset) THEN NoGetError(asset)
    ELSE
    LET device_id == PyStr(Get(asset, "id", JStr(<<>>)))
        name == Get(asset, "label", JStr(TXT_Loca_Device \o device_id))
    IN
    IF ~IsDict(history) THEN NoGetError(history)
    ELSE
    LET latitude == PyFloat(Get(history, "latitude", JInt(0)))
        longitude == PyFloat(Get(history, "longitude", JInt(0)))
        timestamp == Get(history, "time", JInt(0))
        last_seen == IF Truthy(timestamp) /\ ~PyInt(timestamp).raised
                     THEN JInt(PyInt(timestamp).val)
                     ELSE JNull
        charge == Get(history, "charge", JNull)
        battery_level == IF charge.t = "NoneType" THEN Ok(JNull)
                         ELSE IF PyFloat(charge).raised THEN PyFloat(charge)
                         ELSE Ok(JInt(PyFloat(charge).val))
        gps_accuracy == IntOrDefault(Get(history, "HDOP", JInt(1)), 100)
        speed == PyFloat(Get(history, "speed", JInt(0)))
        satellites == IntOrDefault(Get(history, "SATU", JInt(0)), 0)
        signal_strength == IntOrDefault(Get(history, "strength", JInt(0)), 0)
        group_name == get_group_name(cache, Get(asset, "group", JNull))
    IN
    IF latitude.raised THEN latitude
    ELSE IF longitude.raised THEN longitude
    ELSE IF battery_level.raised THEN battery_level
    ELSE IF Truthy(spot) /\ ~IsDict(spot) THEN NoGetError(spot)
    ELSE IF address(spot).raised THEN address(spot)
    ELSE IF gps_accuracy.raised THEN gps_accuracy
    ELSE IF speed.raised THEN speed
    ELSE IF satellites.raised THEN satellites
    ELSE IF signal_strength.raised THEN signal_strength
    ELSE IF group_name.raised THEN group_name
    ELSE Ok([device_id |-> device_id,
             name |-> name,
             latitude |-> latitude.val,
             longitude |-> longitude.val,
             last_seen |-> last_seen,
             battery_level |-> battery_level.val,
             gps_accuracy |-> gps_accuracy.val,
             address |-> address(spot).val,
             speed |-> speed.val,
             satellites |-> satellites.val,
             signal_strength |-> signal_strength.val,
             group_id |-> Get(asset, "group", JInt(0)),
             group_name |-> group_name.val])

TXT_Loca_Location ==
    <<"L","o","c","a"," ","L","o","c","a","t","i","o","n"," ">>
TXT_no_endswith ==
    <<"'"," ","o","b","j","e","c","t"," ","h","a","s"," ","n","o"," ",
      "a","t","t","r","i","b","u","t","e"," ","'","e","n","d","s","w","i","t","h","'">>
TXT_utc == <<"+","0","0",":","0","0">>
TXT_GPS == <<"G","P","S">>

HasChar(text, ch) == \E k \in 1..Len(text) : text[k] = ch

\* text.replace("Z", "+00:00")
RECURSIVE ReplaceZ(_)
ReplaceZ(text) ==
    IF text = <<>> THEN <<>>
    ELSE (IF Head(text) = "Z" THEN TXT_utc ELSE <<Head(text)>>)
         \o ReplaceZ(Tail(text))

\* The normalization of lines 568-572.
NormalizedTime(text) ==
    IF Len(text) > 0 /\ text[Len(text)] = "Z" THEN ReplaceZ(text)
    ELSE IF ~HasChar(text, "+") /\ HasChar(text, "T") THEN text \o TXT_utc
    ELSE text

TwoDigits(text, k, low, high) ==
    /\ IsDigitChar(text[k]) /\ IsDigitChar(text[k + 1])
    /\ DigitsToNat(SubSeq(text, k, k + 1)) \in low..high

DaysIn(year, month) ==
    IF month = 2
    THEN (IF year % 4 = 0 /\ (year % 100 # 0 \/ year % 400 = 0) THEN 29 ELSE 28)
    ELSE IF month \in {4, 6, 9, 11} THEN 30 ELSE 31

\* datetime.fromisoformat(text) accepts the text: of the formats it takes,
\* YYYY-MM-DD and YYYY-MM-DDTHH:MM:SS with an optional +HH:MM or -HH:MM.
IsIsoFormat(text) ==
    /\ Len(text) \in {10, 19, 25}
    /\ IsDigitText(SubSeq(text, 1, 4)) /\ DigitsToNat(SubSeq(text, 1, 4)) >= 1
    /\ text[5] = "-" /\ TwoDigits(text, 6, 1, 12)
    /\ text[8] = "-"
    /\ TwoDigits(text, 9, 1, DaysIn(DigitsToNat(SubSeq(text, 1, 4)),
                                    DigitsToNat(SubSeq(text, 6, 7))))
    /\ Len(text) >= 19
         => /\ text[11] = "T" /\ TwoDigits(text, 12, 0, 23)
            /\ text[14] = ":" /\ TwoDigits(text, 15, 0, 59)
            /\ text[17] = ":" /\ TwoDigits(text, 18, 0, 59)
    /\ Len(text) = 25
         => /\ text[20] \in {"+", "-"} /\ TwoDigits(text, 21, 0, 23)
            /\ text[23] = ":" /\ TwoDigits(text, 24, 0, 59)

\* parse_location_as_device(), lines 550-616.  Modelled fields of the
\* result: device_id, name, latitude, longitude, battery_level,
\* gps_accuracy, last_seen (as the text fromisoformat is given),
\* location_source.
parse_location_as_device(location) ==
    IF ~IsDict(location) THEN NoGetError(location)
    ELSE
    LET device_id == PyStr(Get(location, "id", JStr(<<>>)))
        name == Get(location, "label", JStr(TXT_Loca_Location \o device_id))
        latitude == PyFloat(Get(location, "latitude", JInt(0)))
        longitude == PyFloat(Get(location, "longitude", JInt(0)))
        update_time == Get(location, "update", JStr(<<>>))
        last_seen ==
            IF ~Truthy(update_time) THEN Ok(JNull)
            ELSE IF update_time.t # "str"
            THEN Raise("AttributeError",
                       TXT_quote \o TypeText(update_time) \o TXT_no_endswith)
            ELSE IF IsIsoFormat(NormalizedTime(update_time.s))
            THEN Ok(JStr(NormalizedTime(update_time.s)))
            ELSE Ok(JNull)
        gps_accuracy == PyInt(Get(location, "radius", JInt(100)))
    IN
    IF latitude.raised THEN latitude
    ELSE IF longitude.raised THEN longitude
    ELSE IF last_seen.raised THEN last_seen
    ELSE IF gps_accuracy.raised THEN gps_accuracy
    ELSE Ok([device_id |-> device_id,
             name |-> name,
             latitude |-> latitude.val,
             longitude |-> longitude.val,
             battery_level |-> JNull,
             gps_accuracy |-> gps_accuracy.val,
             last_seen |-> last_seen.val,
             location_source |-> JStr(TXT_GPS)])

----------------------------------------------------------------------------
(***************************************************************************)
(* The state.  Clients are LocaAPI instances; orchestrator o is the        *)
(* LocaDataUpdateCoordinator that owns client o.                           *)
(***************************************************************************)
Clients == {1, 2}

VARIABLES
    hass,               \* client: constructed with a hass object
    creds,              \* client: _api_key, _username, _password
    authenticated,      \* client: _authenticated
    session,            \* client: _session ("none", "hass", "own", "given")
    groups_cache,       \* client: _groups_cache
    op,                 \* task: the running top-level operation, or "none"
    fn,                 \* task: the fetcher being executed, or "none"
    pc,                 \* task: where the task stands
    auth_result,        \* task: the value authenticate() is returning
    retv,               \* task: the value the fetcher is returning
    ret,                \* task: what the last direct fetcher call returned
    log,                \* task: the calls and requests of the running operation
    status_list,        \* cycle: local status_list
    devices,            \* cycle: local devices
    idx,                \* cycle: position of the for loop over status_list
    exc,                \* cycle: the exception raised inside the try block
    failure,            \* cycle: the exception raised to the host
    outcome,            \* cycle: how the last cycle ended
    data,               \* orchestrator: the published snapshot (self.data)
    empty_device_count, \* orchestrator: _empty_device_count
    issues,             \* host: the repair issues of the domain
    empty_run,          \* history: length of the run of consecutive cycles,
                        \* up to the latest ended one, that each published
                        \* an empty mapping (a cancelled cycle is skipped)
    empties_since_publish, \* history: cycles that published an empty
                        \* mapping since the last non-empty one
    at_start,           \* history: the state the running operation started in
    auth_response,      \* task: the response the latest login POST got
    side_op,            \* second task: the logout() or close() it runs or ran
    side_pc,            \* second task: where it stands
    side_ret,           \* second task: what logout() returned
    side_response,      \* second task: the response its logout POST got
    side_log,           \* second task: the requests and closes of its call
    side_start,         \* history: the client as the second task's call met it
    closed,             \* history: the sessions closed so far, in order
    gen,                \* history: how many sessions the client has dropped
    parsed,             \* caller: the latest normalizer call and its result
    config_entries,     \* host: the state of each config entry of the domain
    services            \* host: the registered services of the domain

vars == <<hass, creds, authenticated, session, groups_cache, op, fn, pc,
          auth_result, retv, ret, log, status_list, devices, idx, exc, failure,
          outcome, data, empty_device_count, issues, empty_run, empties_since_publish,
                   at_start, auth_response, side_op, side_pc, side_ret, side_response,
          side_log, side_start, closed, gen, parsed, config_entries,
          services>>

\* The host's config entries and services, written by __init__.py only.
hostVars == <<config_entries, services>>

\* What only logout(), close() and a caller of the normalizer write.
callVars == <<side_op, side_pc, side_ret, side_response, side_log, side_start,
              closed, gen, parsed>>

clientVars == <<hass, creds, authenticated, session, groups_cache>>
cycleVars == <<status_list, devices, idx, exc, failure, outcome, data,
               empty_device_count, issues, empty_run, empties_since_publish,
                   at_start>>

\* Places where a task runs without yielding to the event loop, and places
\* where it is suspended in a network call.
SyncPcs == {"fetch_enter", "auth_enter", "auth_ret", "post", "fetch_ret",
            "call_groups", "groups_update", "call_status", "check_empty",
            "normalize", "raise"}
AwaitPcs == {"auth_probe", "auth_login", "req"}

\* One event loop: a task takes a step only when no other task is in the
\* middle of a synchronous stretch.
MayRun(c) == \A d \in Clients \ {c} : pc[d] \notin SyncPcs

Set(var, c, v) == [var EXCEPT ![c] = v]
Logged(c, event) == [log EXCEPT ![c] = Append(@, event)]

\* The is_authenticated property of LocaAPI: the AuthState of the client.
is_authenticated(c) == authenticated[c]

\* _get_session(), lines 46-61: the session held after the call
get_session(c) ==
    IF session[c] = "none"
    THEN IF hass[c] THEN "hass" ELSE "own"
    ELSE session[c]

CredsComplete(c) ==
    /\ Len(creds[c].api_key) > 0
    /\ Len(creds[c].username) > 0
    /\ Len(creds[c].password) > 0

----------------------------------------------------------------------------
(***************************************************************************)
(* LocaAPI: authenticate() and the four fetchers, step by step.            *)
(***************************************************************************)

\* FetchEnter with the request sent whatever the flag says.
FetchEnterUnchecked(c) ==
    /\ MayRun(c) /\ pc[c] = "fetch_enter"
    /\ log' = Logged(c, fn[c])
    /\ pc' = Set(pc, c, "post")
    /\ UNCHANGED <<hostVars, callVars, auth_response, clientVars, op, fn, auth_result, retv, ret, cycleVars>>

\* A fetcher is entered (lines 182-184, 240-242, 308-310, 373-375).
FetchEnter(c) ==
    /\ MayRun(c) /\ pc[c] = "fetch_enter"
    /\ log' = Logged(c, fn[c])
    /\ pc' = Set(pc, c, IF authenticated[c] THEN "post" ELSE "auth_enter")
    /\ UNCHANGED <<hostVars, callVars, auth_response, clientVars, op, fn, auth_result, retv, ret, cycleVars>>

\* AuthEnter with the credentials not looked at.
AuthEnterAnyCredentials(c) ==
    /\ MayRun(c) /\ pc[c] = "auth_enter"
    /\ session' = Set(session, c, get_session(c))
    /\ log' = Set(log, c, log[c] \o <<"authenticate", "GET probe">>)
    /\ pc' = Set(pc, c, "auth_probe")
    /\ UNCHANGED <<hostVars, callVars, auth_response, hass, creds, authenticated, groups_cache,
                   op, fn, auth_result, retv, ret, cycleVars>>

\* authenticate() is entered (lines 63-84): without complete credentials it
\* returns False at once, else it takes the session and sends the probe GET.
AuthEnter(c) ==
    /\ MayRun(c) /\ pc[c] = "auth_enter"
    /\ IF CredsComplete(c)
       THEN /\ session' = Set(session, c, get_session(c))
            /\ log' = Set(log, c, log[c] \o <<"authenticate", "GET probe">>)
            /\ pc' = Set(pc, c, "auth_probe")
            /\ UNCHANGED auth_result
       ELSE /\ auth_result' = Set(auth_result, c, FALSE)
            /\ log' = Logged(c, "authenticate")
            /\ pc' = Set(pc, c, "auth_ret")
            /\ UNCHANGED session
    /\ UNCHANGED <<hostVars, callVars, auth_response, hass, creds, authenticated, groups_cache, op, fn, retv, ret,
                   cycleVars>>

\* The probe GET ends, well or not (lines 83-87); the login POST is sent
\* (lines 89-92).
AuthProbeDone(c) ==
    /\ MayRun(c) /\ pc[c] = "auth_probe"
    /\ \E reachable \in BOOLEAN :
          log' = Logged(c, "POST Login.json")
    /\ pc' = Set(pc, c, "auth_login")
    /\ UNCHANGED <<hostVars, callVars, auth_response, clientVars, op, fn, auth_result, retv, ret, cycleVars>>

\* The login POST ends (lines 93-149).
AuthLoginResponse(c, responses) ==
    /\ MayRun(c) /\ pc[c] = "auth_login"
    /\ \E r \in responses :
          /\ authenticated' = Set(authenticated, c,
                                  IF authenticate_success(r) THEN TRUE
                                  ELSE authenticated[c])
          /\ auth_result' = Set(auth_result, c, authenticate_success(r))
          /\ auth_response' = Set(auth_response, c, r)
    /\ pc' = Set(pc, c, "auth_ret")
    /\ UNCHANGED <<hostVars, callVars, hass, creds, session, groups_cache, op, fn, retv, ret, log,
                   cycleVars>>

\* AuthReturn with the fetcher sending its request whatever authenticate()
\* returned.
AuthReturnFetchesAnyway(c) ==
    /\ MayRun(c) /\ pc[c] = "auth_ret"
    /\ IF fn[c] # "none"
       THEN /\ pc' = Set(pc, c, "post")
            /\ UNCHANGED <<retv, exc>>
       ELSE /\ pc' = Set(pc, c, IF auth_result[c] THEN "call_groups" ELSE "raise")
            /\ exc' = Set(exc, c,
                          IF auth_result[c] THEN exc[c]
                          ELSE Exc("ConfigEntryAuthFailed", TXT_Authentication_failed))
            /\ UNCHANGED retv
    /\ UNCHANGED <<hostVars, callVars, auth_response, clientVars, op, fn, auth_result, ret, log, status_list, devices,
                   idx, failure, outcome, data, empty_device_count, issues,
                   empty_run, empties_since_publish, at_start>>

\* AuthReturn with the cycle going on whatever authenticate() returned.
AuthReturnUnchecked(c) ==
    /\ MayRun(c) /\ pc[c] = "auth_ret"
    /\ IF fn[c] # "none"
       THEN /\ pc' = Set(pc, c, IF auth_result[c] THEN "post" ELSE "fetch_ret")
            /\ retv' = Set(retv, c, IF auth_result[c] THEN retv[c] ELSE EmptyList)
       ELSE /\ pc' = Set(pc, c, "call_groups")
            /\ UNCHANGED retv
    /\ UNCHANGED <<hostVars, callVars, auth_response, clientVars, op, fn, auth_result, ret, log, status_list, devices,
                   idx, exc, failure, outcome, data, empty_device_count, issues,
                   empty_run, empties_since_publish, at_start>>

\* authenticate() returns to its caller: a fetcher (lines 183-184), or the
\* poll cycle (coordinator.py, lines 61-63).
AuthReturn(c) ==
    /\ MayRun(c) /\ pc[c] = "auth_ret"
    /\ IF fn[c] # "none"
       THEN /\ pc' = Set(pc, c, IF auth_result[c] THEN "post" ELSE "fetch_ret")
            /\ retv' = Set(retv, c, IF auth_result[c] THEN retv[c] ELSE EmptyList)
            /\ UNCHANGED exc
       ELSE /\ pc' = Set(pc, c, IF auth_result[c] THEN "call_groups" ELSE "raise")
            /\ exc' = Set(exc, c,
                          IF auth_result[c] THEN exc[c]
                          ELSE Exc("ConfigEntryAuthFailed", TXT_Authentication_failed))
            /\ UNCHANGED retv
    /\ UNCHANGED <<hostVars, callVars, auth_response, clientVars, op, fn, auth_result, ret, log, status_list, devices,
                   idx, failure, outcome, data, empty_device_count, issues,
                   empty_run, empties_since_publish,
                   at_start>>

\* The fetcher takes the session and sends its POST (lines 186-192).
IssueRequest(c) ==
    /\ MayRun(c) /\ pc[c] = "post"
    /\ session' = Set(session, c, get_session(c))
    /\ log' = Logged(c, Endpoint(fn[c]))
    /\ pc' = Set(pc, c, "req")
    /\ UNCHANGED <<hostVars, callVars, auth_response, hass, creds, authenticated, groups_cache, op, fn, auth_result,
                   retv, ret, cycleVars>>

\* How a request ended: the transport raised (connection error, timeout),
\* the status was not 200, the 200 body was not JSON, or a JSON body came.
ResponseKind(r) ==
    IF r.err THEN "transport error"
    ELSE IF r.status # 200 THEN "status not 200"
    ELSE IF ~r.json_ok THEN "body not JSON"
    ELSE "200 JSON"

\* FetchResponse with the flag cleared by an answer that is not 200.
FetchResponseClearsFlag(c, responses) ==
    /\ MayRun(c) /\ pc[c] = "req"
    /\ \E r \in responses :
          /\ retv' = Set(retv, c, fetcher_result(fn[c], r))
          /\ log' = Logged(c, ResponseKind(r))
          /\ authenticated' =
                Set(authenticated, c,
                    IF ResponseKind(r) = "status not 200" THEN FALSE
                    ELSE authenticated[c])
    /\ pc' = Set(pc, c, "fetch_ret")
    /\ UNCHANGED <<hostVars, callVars, auth_response, hass, creds, session, groups_cache, op,
                   fn, auth_result, ret, cycleVars>>

\* The fetcher's POST ends; the fetcher computes what it returns.
FetchResponse(c, responses) ==
    /\ MayRun(c) /\ pc[c] = "req"
    /\ \E r \in responses :
          /\ retv' = Set(retv, c, fetcher_result(fn[c], r))
          /\ log' = Logged(c, ResponseKind(r))
    /\ pc' = Set(pc, c, "fetch_ret")
    /\ UNCHANGED <<hostVars, callVars, auth_response, clientVars, op, fn, auth_result, ret, cycleVars>>

\* The fetcher returns: to the poll cycle (update_groups_cache, line 422, or
\* coordinator.py line 69), or to the direct caller.
FetchReturn(c) ==
    /\ MayRun(c) /\ pc[c] = "fetch_ret"
    /\ fn' = Set(fn, c, "none")
    /\ IF op[c] \in {"cycle", "update_groups_cache"}
       THEN /\ IF fn[c] = "get_groups"
               THEN /\ pc' = Set(pc, c, "groups_update")
                    /\ UNCHANGED status_list
               ELSE /\ pc' = Set(pc, c, "check_empty")
                    /\ status_list' = Set(status_list, c, retv[c])
            /\ UNCHANGED <<op, ret>>
       ELSE /\ pc' = Set(pc, c, "idle")
            /\ op' = Set(op, c, "none")
            /\ ret' = Set(ret, c, retv[c])
            /\ UNCHANGED status_list
    /\ UNCHANGED <<hostVars, callVars, auth_response, clientVars, auth_result, retv, log, devices, idx, exc, failure,
                   outcome, data, empty_device_count, issues, empty_run, empties_since_publish,
                   at_start>>

\* A direct call of fetcher f on an idle client.
StartFetch(c, f) ==
    /\ MayRun(c) /\ pc[c] = "idle"
    /\ op' = Set(op, c, f)
    /\ fn' = Set(fn, c, f)
    /\ pc' = Set(pc, c, "fetch_enter")
    /\ log' = Set(log, c, <<>>)
    /\ retv' = Set(retv, c, EmptyList)
    /\ at_start' = Set(at_start, c,
                        [authenticated |-> authenticated[c],
                         groups_cache |-> groups_cache[c],
                         data |-> data[c],
                         empty_device_count |-> empty_device_count[c],
                         issues |-> issues])
    /\ UNCHANGED <<hostVars, callVars, auth_response, clientVars, auth_result, ret, status_list, devices, idx, exc,
                   failure, outcome, data, empty_device_count, issues, empty_run,
                   empties_since_publish>>

----------------------------------------------------------------------------
(***************************************************************************)
(* LocaDataUpdateCoordinator._async_update_data, coordinator.py.           *)
(***************************************************************************)
AuthIssue == "api_authentication_failed"
NoDevicesIssue == "no_devices_found"

\* A poll cycle starts (lines 56-60).
StartCycle(o) ==
    /\ MayRun(o) /\ pc[o] = "idle"
    /\ empty_device_count[o] < MaxEmpty
    /\ op' = Set(op, o, "cycle")
    /\ pc' = Set(pc, o, IF is_authenticated(o) THEN "call_groups" ELSE "auth_enter")
    /\ log' = Set(log, o, <<>>)
    /\ retv' = Set(retv, o, EmptyList)
    /\ status_list' = Set(status_list, o, EmptyList)
    /\ devices' = Set(devices, o, EmptyMap)
    /\ idx' = Set(idx, o, 1)
    /\ exc' = Set(exc, o, NoExc)
    /\ failure' = Set(failure, o, NoExc)
    /\ outcome' = Set(outcome, o, "Running")
    /\ at_start' = Set(at_start, o,
                        [authenticated |-> authenticated[o],
                         groups_cache |-> groups_cache[o],
                         data |-> data[o],
                         empty_device_count |-> empty_device_count[o],
                         issues |-> issues])
    /\ UNCHANGED <<hostVars, callVars, auth_response, clientVars, fn, auth_result, ret, data, empty_device_count,
                   issues, empty_run, empties_since_publish>>

\* The cycle calls update_groups_cache(), which calls get_groups()
\* (line 66; api.py line 422).
CallUpdateGroups(o) ==
    /\ MayRun(o) /\ pc[o] = "call_groups"
    /\ log' = Logged(o, "update_groups_cache")
    /\ fn' = Set(fn, o, "get_groups")
    /\ pc' = Set(pc, o, "fetch_enter")
    /\ UNCHANGED <<hostVars, callVars, auth_response, clientVars, op, auth_result, retv, ret, cycleVars>>

\* GroupsUpdate with the exception of the rebuild swallowed: the cycle goes
\* on to the status list.
GroupsUpdateContinues(o) ==
    /\ MayRun(o) /\ pc[o] = "groups_update"
    /\ LET r == update_groups_cache_body(retv[o])
       IN  /\ groups_cache' = Set(groups_cache, o, r.cache)
           /\ pc' = Set(pc, o, "call_status")
           /\ log' = IF r.raised THEN Logged(o, "update_groups_cache raised")
                      ELSE log
    /\ UNCHANGED <<hostVars, callVars, auth_response, hass, creds, authenticated, session, op, fn, auth_result, retv,
                   ret, status_list, devices, idx, exc, failure, outcome, data,
                   empty_device_count, issues, empty_run, empties_since_publish,
                   at_start>>

\* update_groups_cache() rebuilds the cache from what get_groups() returned
\* (api.py lines 423-429).
GroupsUpdate(o) ==
    /\ MayRun(o) /\ pc[o] = "groups_update"
    /\ LET r == update_groups_cache_body(retv[o])
       IN  /\ groups_cache' = Set(groups_cache, o, r.cache)
           /\ exc' = Set(exc, o, r.exc)
           /\ pc' = Set(pc, o, IF r.raised THEN "raise" ELSE "call_status")
           /\ log' = IF r.raised THEN Logged(o, "update_groups_cache raised")
                      ELSE log
    /\ UNCHANGED <<hostVars, callVars, auth_response, hass, creds, authenticated, session, op, fn, auth_result, retv,
                   ret, status_list, devices, idx, failure, outcome, data,
                   empty_device_count, issues, empty_run, empties_since_publish,
                   at_start>>

\* The cycle calls get_status_list() (line 69).
CallGetStatusList(o) ==
    /\ MayRun(o) /\ pc[o] = "call_status"
    /\ fn' = Set(fn, o, "get_status_list")
    /\ pc' = Set(pc, o, "fetch_enter")
    /\ UNCHANGED <<hostVars, callVars, auth_response, clientVars, op, auth_result, retv, ret, log, cycleVars>>

\* CheckEmpty with the empty list counted whatever the AuthState is.
CheckEmptyCountsAlways(o) ==
    /\ MayRun(o) /\ pc[o] = "check_empty"
    /\ IF Truthy(status_list[o])
       THEN /\ pc' = Set(pc, o, "normalize")
            /\ UNCHANGED <<empty_device_count, issues, exc, log>>
       ELSE /\ empty_device_count' =
                   Set(empty_device_count, o, empty_device_count[o] + 1)
            /\ IF empty_device_count[o] + 1 >= 3
               THEN /\ issues' = issues \cup {NoDevicesIssue}
                    /\ log' = Logged(o, "create_no_devices_issue")
               ELSE UNCHANGED <<issues, log>>
            /\ pc' = Set(pc, o, "normalize")
            /\ UNCHANGED exc
    /\ devices' = Set(devices, o, EmptyMap)
    /\ idx' = Set(idx, o, 1)
    /\ UNCHANGED <<hostVars, callVars, auth_response, clientVars, op, fn, auth_result, retv, ret, status_list, failure,
                   outcome, data, empty_run, empties_since_publish,
                   at_start>>

\* The empty status list is handled (lines 73-89).
CheckEmpty(o) ==
    /\ MayRun(o) /\ pc[o] = "check_empty"
    /\ IF Truthy(status_list[o])
       THEN /\ pc' = Set(pc, o, "normalize")
            /\ UNCHANGED <<empty_device_count, issues, exc, log>>
       ELSE IF is_authenticated(o)
       THEN /\ empty_device_count' =
                   Set(empty_device_count, o, empty_device_count[o] + 1)
            /\ IF empty_device_count[o] + 1 >= 3
               THEN /\ issues' = issues \cup {NoDevicesIssue}
                    /\ log' = Logged(o, "create_no_devices_issue")
               ELSE UNCHANGED <<issues, log>>
            /\ pc' = Set(pc, o, "normalize")
            /\ UNCHANGED exc
       ELSE /\ issues' = issues \cup {AuthIssue}
            /\ log' = Logged(o, "create_api_auth_issue")
            /\ exc' = Set(exc, o, Exc("ConfigEntryAuthFailed",
                                      TXT_Authentication_required))
            /\ pc' = Set(pc, o, "raise")
            /\ UNCHANGED empty_device_count
    /\ devices' = Set(devices, o, EmptyMap)
    /\ idx' = Set(idx, o, 1)
    /\ UNCHANGED <<hostVars, callVars, auth_response, clientVars, op, fn, auth_result, retv, ret, status_list, failure,
                   outcome, data, empty_run, empties_since_publish,
                   at_start>>

\* NormalizeStep with the group names of the cache the cycle started with.
NormalizeStepStartCache(o) ==
    /\ MayRun(o) /\ pc[o] = "normalize"
    /\ idx[o] <= Len(IterItems(status_list[o]))
    /\ LET r == parse_status_as_device(at_start[o].groups_cache,
                                       IterItems(status_list[o])[idx[o]])
       IN  IF r.raised
           THEN /\ exc' = Set(exc, o, r.exc)
                /\ pc' = Set(pc, o, "raise")
                /\ UNCHANGED <<devices, idx>>
           ELSE /\ devices' = Set(devices, o, Put(devices[o], r.val.device_id, r.val))
                /\ idx' = Set(idx, o, idx[o] + 1)
                /\ UNCHANGED <<exc, pc>>
    /\ log' = Logged(o, "parse_status_as_device")
    /\ UNCHANGED <<hostVars, callVars, auth_response, clientVars, op, fn, auth_result, retv, ret, status_list, failure,
                   outcome, data, empty_device_count, issues, empty_run, empties_since_publish,
                   at_start>>

\* NormalizeStep with each record written into the live snapshot as soon as
\* it is parsed.
NormalizeStepLive(o) ==
    /\ MayRun(o) /\ pc[o] = "normalize"
    /\ idx[o] <= Len(IterItems(status_list[o]))
    /\ LET r == parse_status_as_device(groups_cache[o],
                                       IterItems(status_list[o])[idx[o]])
       IN  IF r.raised
           THEN /\ exc' = Set(exc, o, r.exc)
                /\ pc' = Set(pc, o, "raise")
                /\ UNCHANGED <<devices, idx, data>>
           ELSE /\ devices' = Set(devices, o, Put(devices[o], r.val.device_id, r.val))
                /\ data' = Set(data, o, Put(data[o], r.val.device_id, r.val))
                /\ idx' = Set(idx, o, idx[o] + 1)
                /\ UNCHANGED <<exc, pc>>
    /\ log' = Logged(o, "parse_status_as_device")
    /\ UNCHANGED <<hostVars, callVars, auth_response, clientVars, op, fn, auth_result, retv, ret, status_list, failure,
                   outcome, empty_device_count, issues, empty_run,
                   empties_since_publish, at_start>>

\* One turn of the for loop over status_list (lines 92-100).
NormalizeStep(o) ==
    /\ MayRun(o) /\ pc[o] = "normalize"
    /\ idx[o] <= Len(IterItems(status_list[o]))
    /\ LET r == parse_status_as_device(groups_cache[o],
                                       IterItems(status_list[o])[idx[o]])
       IN  IF r.raised
           THEN /\ exc' = Set(exc, o, r.exc)
                /\ pc' = Set(pc, o, "raise")
                /\ UNCHANGED <<devices, idx>>
           ELSE /\ devices' = Set(devices, o, Put(devices[o], r.val.device_id, r.val))
                /\ idx' = Set(idx, o, idx[o] + 1)
                /\ UNCHANGED <<exc, pc>>
    /\ log' = Logged(o, "parse_status_as_device")
    /\ UNCHANGED <<hostVars, callVars, auth_response, clientVars, op, fn, auth_result, retv, ret, status_list, failure,
                   outcome, data, empty_device_count, issues, empty_run, empties_since_publish,
                   at_start>>

\* Published with the new records merged into the previous snapshot.
PublishedMerged(o) ==
    [k \in DOMAIN data[o] \cup DOMAIN devices[o] |->
        IF k \in DOMAIN devices[o] THEN devices[o][k] ELSE data[o][k]]

\* What `return devices` publishes (line 118): the coordinator's data becomes
\* the mapping the cycle returned.
Published(o) == devices[o]

\* Publish with one counter for all coordinators.
PublishResetsEveryCounter(o) ==
    /\ MayRun(o) /\ pc[o] = "normalize"
    /\ idx[o] > Len(IterItems(status_list[o]))
    /\ IF DOMAIN devices[o] # {}
       THEN /\ issues' = issues \ {AuthIssue, NoDevicesIssue}
            /\ empty_device_count' = [c \in Clients |-> 0]
       ELSE UNCHANGED <<issues, empty_device_count>>
    /\ empty_run' =
          Set(empty_run, o, IF DOMAIN Published(o) # {} THEN 0 ELSE empty_run[o] + 1)
    /\ empties_since_publish' =
          Set(empties_since_publish, o,
              IF DOMAIN Published(o) # {} THEN 0 ELSE empties_since_publish[o] + 1)
    /\ data' = Set(data, o, Published(o))
    /\ outcome' = Set(outcome, o, "Published")
    /\ op' = Set(op, o, "none")
    /\ pc' = Set(pc, o, "idle")
    /\ UNCHANGED <<hostVars, callVars, auth_response, clientVars, fn, auth_result, retv, ret, log, status_list, devices,
                   idx, exc, failure, at_start>>

\* Publish without the reset of the counter.
PublishKeepsCounter(o) ==
    /\ MayRun(o) /\ pc[o] = "normalize"
    /\ idx[o] > Len(IterItems(status_list[o]))
    /\ IF DOMAIN devices[o] # {}
       THEN issues' = issues \ {AuthIssue, NoDevicesIssue}
       ELSE UNCHANGED issues
    /\ empty_run' =
          Set(empty_run, o, IF DOMAIN Published(o) # {} THEN 0 ELSE empty_run[o] + 1)
    /\ empties_since_publish' =
          Set(empties_since_publish, o,
              IF DOMAIN Published(o) # {} THEN 0 ELSE empties_since_publish[o] + 1)
    /\ data' = Set(data, o, Published(o))
    /\ outcome' = Set(outcome, o, "Published")
    /\ op' = Set(op, o, "none")
    /\ pc' = Set(pc, o, "idle")
    /\ UNCHANGED <<hostVars, callVars, auth_response, clientVars, fn, auth_result, retv, ret, log, status_list, devices,
                   idx, exc, failure, at_start, empty_device_count>>

\* After the loop: the issues are cleared and the counter reset when there
\* are devices, and the mapping is returned (lines 102-118).
Publish(o) ==
    /\ MayRun(o) /\ pc[o] = "normalize"
    /\ idx[o] > Len(IterItems(status_list[o]))
    /\ IF DOMAIN devices[o] # {}
       THEN /\ issues' = issues \ {AuthIssue, NoDevicesIssue}
            /\ empty_device_count' = Set(empty_device_count, o, 0)
       ELSE UNCHANGED <<issues, empty_device_count>>
    /\ empty_run' =
          Set(empty_run, o, IF DOMAIN Published(o) # {} THEN 0 ELSE empty_run[o] + 1)
    /\ empties_since_publish' =
          Set(empties_since_publish, o,
              IF DOMAIN Published(o) # {} THEN 0 ELSE empties_since_publish[o] + 1)
    /\ data' = Set(data, o, Published(o))
    /\ outcome' = Set(outcome, o, "Published")
    /\ op' = Set(op, o, "none")
    /\ pc' = Set(pc, o, "idle")
    /\ UNCHANGED <<hostVars, callVars, auth_response, clientVars, fn, auth_result, retv, ret, log, status_list, devices,
                   idx, exc, failure, at_start>>

\* IsAuthError without the lower-casing of the text.
IsAuthErrorCaseSensitive(text) ==
    \E k \in 1..Len(AUTH_ERROR_TERMS) : Contains(AUTH_ERROR_TERMS[k], text)

\* `any(term in error_str for term in AUTH_ERROR_TERMS)` on str(err).lower()
\* (lines 125-126)
IsAuthError(text) ==
    \E k \in 1..Len(AUTH_ERROR_TERMS) : Contains(AUTH_ERROR_TERMS[k], Lower(text))

\* The except clauses (lines 120-131).
HandleException(o) ==
    /\ MayRun(o) /\ pc[o] = "raise"
    /\ IF exc[o].type = "ConfigEntryAuthFailed"
       THEN /\ failure' = Set(failure, o, exc[o])
            /\ outcome' = Set(outcome, o, "AuthFailed")
            /\ UNCHANGED <<issues, log>>
       ELSE IF IsAuthError(exc[o].text)
       THEN /\ issues' = issues \cup {AuthIssue}
            /\ log' = Logged(o, "create_api_auth_issue")
            /\ failure' = Set(failure, o,
                   Exc("ConfigEntryAuthFailed", TXT_Authentication_error \o exc[o].text))
            /\ outcome' = Set(outcome, o, "AuthFailed")
       ELSE /\ failure' = Set(failure, o,
                   Exc("UpdateFailed", TXT_Error_communicating \o exc[o].text))
            /\ outcome' = Set(outcome, o, "TransientFailed")
            /\ UNCHANGED <<issues, log>>
    /\ empty_run' = Set(empty_run, o, 0)
    /\ op' = Set(op, o, "none")
    /\ pc' = Set(pc, o, "idle")
    /\ UNCHANGED <<hostVars, callVars, auth_response, clientVars, fn, auth_result, retv, ret, status_list, devices, idx,
                   exc, data, empty_device_count, empties_since_publish, at_start>>

\* The host cancels the cycle while it is suspended in a network call.
Cancel(o) ==
    /\ MayRun(o) /\ op[o] = "cycle" /\ pc[o] \in AwaitPcs
    /\ outcome' = Set(outcome, o, "Cancelled")
    /\ op' = Set(op, o, "none")
    /\ fn' = Set(fn, o, "none")
    /\ pc' = Set(pc, o, "idle")
    /\ UNCHANGED <<hostVars, callVars, auth_response, clientVars, auth_result, retv, ret, log, status_list, devices,
                   idx, exc, failure, data, empty_device_count, issues, empty_run, empties_since_publish,
                   at_start>>

----------------------------------------------------------------------------
(***************************************************************************)
(* The inputs: what the vendor's server may answer.                        *)
(***************************************************************************)
TXT_Forbidden == <<"F","o","r","b","i","d","d","e","n">>
TXT_x401 == <<"x","4","0","1">>
TXT_abc == <<"a","b","c">>
TXT_E403 == <<"E","4","0","3">>
TXT_Auth == <<"A","u","t","h">>
TXT_Unauthorized == <<"U","n","a","u","t","h","o","r","i","z","e","d">>
TXT_Autos == <<"A","u","t","o","s">>
TXT_Failed == <<"F","a","i","l","e","d">>

\* Sequences over S of length 0..n
SeqsUpTo(S, n) == UNION {[1..k -> S] : k \in 0..n}

Entry_A ==
    JDict([Asset |-> JDict([id |-> JInt(1), group |-> JInt(1)]),
           History |-> JDict([latitude |-> JInt(52), longitude |-> JInt(4),
                              charge |-> JInt(85)])])
Entry_A2 ==
    JDict([Asset |-> JDict([id |-> JStr(<<"1">>)]),
           History |-> JDict([latitude |-> JStr(<<"5","1">>)])])
Entry_B ==
    JDict([Asset |-> JDict([id |-> JStr(<<"2">>), group |-> JStr(<<"2">>)]),
           Spot |-> JNull])
Entry_BadLatitude ==
    JDict([Asset |-> JDict([id |-> JInt(3)]),
           History |-> JDict([latitude |-> JStr(TXT_Forbidden)])])

SampleEntries ==
    {Entry_A, Entry_A2, Entry_B, Entry_BadLatitude}

Group_1 == JDict([id |-> JInt(1), label |-> JStr(TXT_Autos)])
Group_2 == JDict([id |-> JStr(<<"2">>)])
Group_Bad401 == JDict([id |-> JStr(TXT_x401)])
Group_BadAbc == JDict([id |-> JStr(TXT_abc)])
Group_Bad403 == JDict([id |-> JStr(TXT_E403)])
Group_BadAuth == JDict([id |-> JStr(TXT_Auth)])
Group_BadUnauthorized == JDict([id |-> JStr(TXT_Unauthorized)])

SampleGroups ==
    {Group_1, Group_2, Group_Bad401, Group_BadAbc, Group_Bad403, Group_BadAuth,
     Group_BadUnauthorized}

UserObject == JDict([userid |-> JInt(7)])
ErrorBody == JDict([status |-> JStr(<<"e","r","r","o","r">>),
                    message |-> JStr(TXT_Failed)])

LoginResponses ==
    {HttpError, HttpStatus(401), HttpNotJson, HttpJson(ErrorBody),
     HttpJson(JDict([user |-> UserObject]))}

\* What the servers answer to the requests of a poll cycle.
CycleGroupResponses ==
    {HttpError}
    \cup {HttpJson(JDict([groups |-> JList(L)])) : L \in SeqsUpTo(SampleGroups, MaxGroups)}

CycleStatusResponses ==
    {HttpError, HttpStatus(500), HttpNotJson, HttpJson(ErrorBody),
     HttpJson(JDict([status |-> JStr(TXT_ok), devices |-> JDict([a |-> Entry_A])]))}
    \cup {HttpJson(JDict([StatusList |-> JList(L)])) :
             L \in SeqsUpTo(SampleEntries, MaxDevices)}
    \cup {HttpJson(JList(L)) : L \in SeqsUpTo(SampleEntries, 1)}

CycleResponses(f) ==
    IF f = "get_groups" THEN CycleGroupResponses ELSE CycleStatusResponses

\* The bodies tried on each fetcher called directly.
ApiBodies ==
    {EmptyList, JList(<<Entry_A>>), JList(<<JInt(1)>>), JStr(TXT_abc), JInt(5), JNull,
     EmptyDict, ErrorBody,
     JDict([assets |-> JList(<<Entry_A>>)]),
     JDict([assets |-> JNull]),
     JDict([assets |-> JDict([a |-> Entry_A])]),
     JDict([assets |-> JStr(TXT_abc)]),
     JDict([assets |-> JInt(5)]),
     JDict(("12345" :> Entry_A) @@ ("a" :> Entry_B)),
     JDict(("asset_1" :> JInt(5))),
     JDict([StatusList |-> JList(<<Entry_A>>)]),
     JDict([StatusList |-> JStr(TXT_abc)]),
     JDict([StatusList |-> JList(<<Entry_A>>), status |-> JStr(TXT_ok),
            devices |-> JList(<<Entry_B>>)]),
     JDict([status |-> JStr(TXT_ok), devices |-> JList(<<Entry_B>>)]),
     JDict([status |-> JStr(TXT_ok), devices |-> JDict([a |-> Entry_A])]),
     JDict([status |-> JStr(TXT_ok), devices |-> JStr(TXT_abc)]),
     JDict([status |-> JStr(TXT_ok), devices |-> JInt(5)]),
     JDict([status |-> JStr(TXT_ok), devices |-> EmptyList]),
     JDict([devices |-> JList(<<Entry_A>>)]),
     JDict([devices |-> JDict([a |-> Entry_A])]),
     JDict([response |-> JDict([UserLocationList |-> JList(<<Entry_A>>)])]),
     JDict([response |-> JDict([UserLocationList |-> JStr(TXT_abc)])]),
     JDict([status |-> JStr(TXT_ok), locations |-> JList(<<Entry_A>>)]),
     JDict([status |-> JStr(TXT_ok), locations |-> JDict([a |-> Entry_A])]),
     JDict([locations |-> JList(<<Entry_A>>)]),
     JDict([groups |-> JList(<<Group_1>>)]),
     JDict([groups |-> JStr(TXT_abc)]),
     JDict([groups |-> JDict([a |-> Group_1])])}

ApiResponses ==
    {HttpError, HttpStatus(500), HttpStatus(401), HttpNotJson}
    \cup {HttpJson(b) : b \in ApiBodies}

FullCreds == [api_key |-> <<"k">>, username |-> <<"u">>, password |-> <<"p">>]
CredsChoices ==
    {FullCreds,
     [FullCreds EXCEPT !.api_key = <<>>],
     [FullCreds EXCEPT !.username = <<>>],
     [FullCreds EXCEPT !.password = <<>>]}

----------------------------------------------------------------------------
(***************************************************************************)
(* LocaAPI called directly: authenticate(), logout(), close(),             *)
(* update_groups_cache() and the normalizer.  logout() and close() run in  *)
(* a second task of the client, so that they can be in flight while a      *)
(* fetcher of the same client is.                                          *)
(***************************************************************************)
MaxCloses == 2

\* The event loop is free: no task is in the middle of a synchronous stretch.
\* The second task only stands at awaits, so it is started and resumed then.
LoopFree == \A d \in Clients : pc[d] \notin SyncPcs

\* A direct call of authenticate() on an idle client.
StartAuthenticate(c) ==
    /\ MayRun(c) /\ pc[c] = "idle"
    /\ op' = Set(op, c, "authenticate")
    /\ pc' = Set(pc, c, "auth_enter")
    /\ log' = Set(log, c, <<>>)
    /\ at_start' = Set(at_start, c,
                        [authenticated |-> authenticated[c],
                         groups_cache |-> groups_cache[c],
                         data |-> data[c],
                         empty_device_count |-> empty_device_count[c],
                         issues |-> issues])
    /\ UNCHANGED <<hostVars, callVars, auth_response, clientVars, fn, auth_result, retv, ret,
                   status_list, devices, idx, exc, failure, outcome, data,
                   empty_device_count, issues, empty_run, empties_since_publish>>

\* authenticate() returns to a direct caller (lines 69, 107, 122, 126, 133,
\* 149).
AuthReturnToCaller(c) ==
    /\ MayRun(c) /\ pc[c] = "auth_ret" /\ op[c] = "authenticate"
    /\ pc' = Set(pc, c, "idle")
    /\ op' = Set(op, c, "none")
    /\ UNCHANGED <<hostVars, callVars, auth_response, clientVars, fn, auth_result, retv, ret,
                   log, cycleVars>>

\* What a call of the second task meets.
Met(c) ==
    [authenticated |-> authenticated[c], session |-> session[c], gen |-> gen[c]]

\* logout() is called (lines 151-162): it returns True at once when the
\* client is not authenticated, else it takes the session and sends its POST.
StartLogout(c) ==
    /\ LoopFree /\ side_pc[c] = "idle"
    /\ side_op' = Set(side_op, c, "logout")
    /\ side_start' = Set(side_start, c, Met(c))
    /\ IF authenticated[c]
       THEN /\ session' = Set(session, c, get_session(c))
            /\ side_log' = Set(side_log, c, <<"POST Logout.json">>)
            /\ side_pc' = Set(side_pc, c, "logout_req")
            /\ UNCHANGED side_ret
       ELSE /\ side_ret' = Set(side_ret, c, TRUE)
            /\ side_log' = Set(side_log, c, <<>>)
            /\ UNCHANGED <<session, side_pc>>
    /\ UNCHANGED <<hostVars, hass, creds, authenticated, groups_cache, op, fn, pc,
                   auth_result, retv, ret, log, cycleVars, auth_response,
                   side_response, closed, gen, parsed>>

\* close(), lines 687-693, from the point where logout() has returned and
\* auth is the flag it left: a session of a client without hass is closed,
\* which suspends the task; else the flag is cleared and close() returns.
CloseRest(c, auth, events) ==
    IF session[c] # "none" /\ ~hass[c]
    THEN /\ closed' = Set(closed, c, Append(closed[c], <<session[c], gen[c]>>))
         /\ side_log' = Set(side_log, c, Append(events, "session.close"))
         /\ side_pc' = Set(side_pc, c, "closing")
         /\ authenticated' = Set(authenticated, c, auth)
    ELSE /\ authenticated' = Set(authenticated, c, FALSE)
         /\ side_log' = Set(side_log, c, events)
         /\ side_pc' = Set(side_pc, c, "idle")
         /\ UNCHANGED closed

\* close() is called (lines 683-686): it calls logout() when the client is
\* authenticated.
StartClose(c) ==
    /\ LoopFree /\ side_pc[c] = "idle" /\ gen[c] < MaxCloses
    /\ side_op' = Set(side_op, c, "close")
    /\ side_start' = Set(side_start, c, Met(c))
    /\ IF authenticated[c]
       THEN /\ session' = Set(session, c, get_session(c))
            /\ side_log' = Set(side_log, c, <<"POST Logout.json">>)
            /\ side_pc' = Set(side_pc, c, "logout_req")
            /\ UNCHANGED <<authenticated, closed>>
       ELSE /\ CloseRest(c, authenticated[c], <<>>)
            /\ UNCHANGED session
    /\ UNCHANGED <<hostVars, hass, creds, groups_cache, op, fn, pc, auth_result, retv, ret,
                   log, cycleVars, auth_response, side_ret, side_response, gen,
                   parsed>>

\* LogoutResponse with the flag cleared whatever the response was.
LogoutResponseAlwaysClears(c, responses) ==
    /\ LoopFree /\ side_pc[c] = "logout_req"
    /\ \E r \in responses :
          /\ side_ret' = Set(side_ret, c, logout_success(r))
          /\ side_response' = Set(side_response, c, r)
          /\ IF side_op[c] = "close"
             THEN CloseRest(c, FALSE, side_log[c])
             ELSE /\ authenticated' = Set(authenticated, c, FALSE)
                  /\ side_pc' = Set(side_pc, c, "idle")
                  /\ UNCHANGED <<side_log, closed>>
    /\ UNCHANGED <<hostVars, hass, creds, session, groups_cache, op, fn, pc, auth_result,
                   retv, ret, log, cycleVars, auth_response, side_op, side_start,
                   gen, parsed>>

\* The logout POST ends (lines 162-178); inside close() the task goes on to
\* line 687.
LogoutResponse(c, responses) ==
    /\ LoopFree /\ side_pc[c] = "logout_req"
    /\ \E r \in responses :
          /\ side_ret' = Set(side_ret, c, logout_success(r))
          /\ side_response' = Set(side_response, c, r)
          /\ LET auth == IF logout_success(r) THEN FALSE ELSE authenticated[c]
             IN  IF side_op[c] = "close"
                 THEN CloseRest(c, auth, side_log[c])
                 ELSE /\ authenticated' = Set(authenticated, c, auth)
                      /\ side_pc' = Set(side_pc, c, "idle")
                      /\ UNCHANGED <<side_log, closed>>
    /\ UNCHANGED <<hostVars, hass, creds, session, groups_cache, op, fn, pc, auth_result,
                   retv, ret, log, cycleVars, auth_response, side_op, side_start,
                   gen, parsed>>

\* CloseDone with the closed session still held.
CloseDoneKeepsSession(c) ==
    /\ LoopFree /\ side_pc[c] = "closing"
    /\ authenticated' = Set(authenticated, c, FALSE)
    /\ side_pc' = Set(side_pc, c, "idle")
    /\ UNCHANGED <<hostVars, hass, creds, session, groups_cache, op, fn, pc, auth_result,
                   retv, ret, log, cycleVars, auth_response, side_op, side_ret,
                   side_response, side_log, side_start, closed, gen, parsed>>

\* session.close() has ended (lines 690-693): the session is dropped and the
\* flag cleared.
CloseDone(c) ==
    /\ LoopFree /\ side_pc[c] = "closing"
    /\ session' = Set(session, c, "none")
    /\ gen' = Set(gen, c, gen[c] + 1)
    /\ authenticated' = Set(authenticated, c, FALSE)
    /\ side_pc' = Set(side_pc, c, "idle")
    /\ UNCHANGED <<hostVars, hass, creds, groups_cache, op, fn, pc, auth_result, retv, ret,
                   log, cycleVars, auth_response, side_op, side_ret, side_response,
                   side_log, side_start, closed, parsed>>

LogoutResponses ==
    {HttpError, HttpStatus(500), HttpNotJson, HttpJson(ErrorBody),
     HttpJson(JDict([status |-> JStr(TXT_ok)])), HttpJson(EmptyList)}

\* A direct call of update_groups_cache() on an idle client (line 422).
StartUpdateGroups(c) ==
    /\ MayRun(c) /\ pc[c] = "idle"
    /\ op' = Set(op, c, "update_groups_cache")
    /\ fn' = Set(fn, c, "get_groups")
    /\ pc' = Set(pc, c, "fetch_enter")
    /\ log' = Set(log, c, <<"update_groups_cache">>)
    /\ retv' = Set(retv, c, EmptyList)
    /\ exc' = Set(exc, c, NoExc)
    /\ at_start' = Set(at_start, c,
                        [authenticated |-> authenticated[c],
                         groups_cache |-> groups_cache[c],
                         data |-> data[c],
                         empty_device_count |-> empty_device_count[c],
                         issues |-> issues])
    /\ UNCHANGED <<hostVars, callVars, auth_response, clientVars, auth_result, ret,
                   status_list, devices, idx, failure, outcome, data,
                   empty_device_count, issues, empty_run, empties_since_publish>>

\* update_groups_cache() called directly rebuilds the cache from what
\* get_groups() returned (lines 423-429) and returns, or raises, to its
\* caller.
GroupsRebuild(c) ==
    /\ MayRun(c) /\ pc[c] = "groups_update" /\ op[c] = "update_groups_cache"
    /\ LET r == update_groups_cache_body(retv[c])
       IN  /\ groups_cache' = Set(groups_cache, c, r.cache)
           /\ exc' = Set(exc, c, r.exc)
    /\ pc' = Set(pc, c, "idle")
    /\ op' = Set(op, c, "none")
    /\ UNCHANGED <<hostVars, callVars, auth_response, hass, creds, authenticated, session, fn,
                   auth_result, retv, ret, log, status_list, devices, idx, failure,
                   outcome, data, empty_device_count, issues, empty_run,
                   empties_since_publish, at_start>>

\* get_group_name(group_id) is called on an idle client (lines 431-435).
CallGetGroupName(c, ids) ==
    /\ MayRun(c) /\ pc[c] = "idle"
    /\ \E group_id \in ids :
          parsed' = [fn |-> "get_group_name", input |-> group_id,
                     result |-> get_group_name(groups_cache[c], group_id)]
    /\ UNCHANGED <<hostVars, side_op, side_pc, side_ret, side_response, side_log, side_start,
                   closed, gen, auth_response, clientVars, op, fn, pc, auth_result,
                   retv, ret, log, cycleVars>>

----------------------------------------------------------------------------
(***************************************************************************)
(* The specifications.                                                     *)
(***************************************************************************)
\* What every specification starts from: nothing called yet.
InitTasks ==
    /\ authenticated = [c \in Clients |-> FALSE]
    /\ groups_cache = [c \in Clients |-> EmptyMap]
    /\ op = [c \in Clients |-> "none"]
    /\ fn = [c \in Clients |-> "none"]
    /\ pc = [c \in Clients |-> "idle"]
    /\ auth_result = [c \in Clients |-> FALSE]
    /\ retv = [c \in Clients |-> EmptyList]
    /\ ret = [c \in Clients |-> EmptyList]
    /\ log = [c \in Clients |-> <<>>]
    /\ status_list = [c \in Clients |-> EmptyList]
    /\ devices = [c \in Clients |-> EmptyMap]
    /\ idx = [c \in Clients |-> 1]
    /\ exc = [c \in Clients |-> NoExc]
    /\ failure = [c \in Clients |-> NoExc]
    /\ outcome = [c \in Clients |-> "None"]
    /\ data = [c \in Clients |-> EmptyMap]
    /\ empty_device_count = [c \in Clients |-> 0]
    /\ issues = {}
    /\ empty_run = [c \in Clients |-> 0]
    /\ empties_since_publish = [c \in Clients |-> 0]
    /\ at_start = [c \in Clients |->
                      [authenticated |-> FALSE, groups_cache |-> EmptyMap,
                       data |-> EmptyMap, empty_device_count |-> 0, issues |-> {}]]
    /\ auth_response = [c \in Clients |-> HttpError]
    /\ side_op = [c \in Clients |-> "none"]
    /\ side_pc = [c \in Clients |-> "idle"]
    /\ side_ret = [c \in Clients |-> TRUE]
    /\ side_response = [c \in Clients |-> HttpError]
    /\ side_log = [c \in Clients |-> <<>>]
    /\ side_start = [c \in Clients |->
                        [authenticated |-> FALSE, session |-> "none", gen |-> 0]]
    /\ closed = [c \in Clients |-> <<>>]
    /\ gen = [c \in Clients |-> 0]
    /\ parsed = [fn |-> "none", input |-> JNull, result |-> Ok(JNull)]

\* The config entries of the domain, and the host's registry with no entry
\* of the domain and no service: coordinators and clients built outside of
\* the set-up of an entry.
Entries == 1..MaxEntries
ServiceNames == {"refresh_devices", "force_update"}
InitHost ==
    /\ config_entries = [e \in Entries |-> "absent"]
    /\ services = {}

\* A coordinator as __init__ leaves it (coordinator.py lines 35-54, api.py
\* lines 29-44): the client has the hass object, no session yet.
Init ==
    /\ hass = [c \in Clients |-> TRUE]
    /\ creds = [c \in Clients |-> FullCreds]
    /\ session = [c \in Clients |-> "none"]
    /\ InitTasks
    /\ InitHost

\* The steps of orchestrator o.
CycleNext(o) ==
    \/ StartCycle(o)
    \/ FetchEnter(o)
    \/ AuthEnter(o)
    \/ AuthProbeDone(o)
    \/ AuthLoginResponse(o, LoginResponses)
    \/ AuthReturn(o)
    \/ IssueRequest(o)
    \/ FetchResponse(o, CycleResponses(fn[o]))
    \/ FetchReturn(o)
    \/ CallUpdateGroups(o)
    \/ GroupsUpdate(o)
    \/ CallGetStatusList(o)
    \/ CheckEmpty(o)
    \/ NormalizeStep(o)
    \/ Publish(o)
    \/ HandleException(o)
    \/ Cancel(o)

\* One orchestrator polling.
Next == \E o \in {1} : CycleNext(o)

Spec == Init /\ [][Next]_vars

\* A client used directly: any construction (api.py lines 29-44).
InitApi ==
    /\ hass \in [Clients -> BOOLEAN]
    /\ creds \in [Clients -> CredsChoices]
    /\ session \in [Clients -> {"none", "given"}]
    /\ hass[2] = TRUE /\ creds[2] = FullCreds /\ session[2] = "none"
    /\ InitTasks
    /\ InitHost

ApiNext(c) ==
    \/ \E f \in Fetchers : StartFetch(c, f)
    \/ FetchEnter(c)
    \/ AuthEnter(c)
    \/ AuthProbeDone(c)
    \/ AuthLoginResponse(c, LoginResponses)
    \/ AuthReturn(c)
    \/ IssueRequest(c)
    \/ FetchResponse(c, ApiResponses)
    \/ FetchReturn(c)

NextApi == \E c \in {1} : ApiNext(c)

SpecApi == InitApi /\ [][NextApi]_vars

\* What the servers answer to a client whose calls overlap.
ClientLoginResponses ==
    LoginResponses
    \cup {HttpJson(JDict([user |-> EmptyDict])),
          HttpJson(JDict([user |-> JStr(TXT_abc)])),
          HttpJson(EmptyList)}

ClientFetchResponses ==
    {HttpError, HttpJson(JDict([StatusList |-> JList(<<Entry_A>>)]))}

\* A client used directly by two tasks: one calls authenticate() and the
\* fetchers, the other logout() and close(), in any interleaving the event
\* loop allows.
ClientNext(c) ==
    \/ \E f \in {"get_status_list", "get_groups"} : StartFetch(c, f)
    \/ StartAuthenticate(c)
    \/ FetchEnter(c)
    \/ AuthEnter(c)
    \/ AuthProbeDone(c)
    \/ AuthLoginResponse(c, ClientLoginResponses)
    \/ op[c] # "authenticate" /\ AuthReturn(c)
    \/ AuthReturnToCaller(c)
    \/ IssueRequest(c)
    \/ FetchResponse(c, ClientFetchResponses)
    \/ FetchReturn(c)
    \/ StartLogout(c)
    \/ StartClose(c)
    \/ LogoutResponse(c, LogoutResponses)
    \/ CloseDone(c)

NextClient == \E c \in {1} : ClientNext(c)

SpecClient == InitApi /\ [][NextClient]_vars

\* parse_status_as_device(status_entry) is called on an idle client.
CallParseStatus(c, entries) ==
    /\ MayRun(c) /\ pc[c] = "idle"
    /\ \E status_entry \in entries :
          parsed' = [fn |-> "parse_status_as_device", input |-> status_entry,
                     result |-> parse_status_as_device(groups_cache[c],
                                                       status_entry)]
    /\ UNCHANGED <<hostVars, side_op, side_pc, side_ret, side_response, side_log, side_start,
                   closed, gen, auth_response, clientVars, op, fn, pc, auth_result,
                   retv, ret, log, cycleVars>>

\* parse_location_as_device(location) is called on an idle client.
CallParseLocation(c, locations) ==
    /\ MayRun(c) /\ pc[c] = "idle"
    /\ \E location \in locations :
          parsed' = [fn |-> "parse_location_as_device", input |-> location,
                     result |-> parse_location_as_device(location)]
    /\ UNCHANGED <<hostVars, side_op, side_pc, side_ret, side_response, side_log, side_start,
                   closed, gen, auth_response, clientVars, op, fn, pc, auth_result,
                   retv, ret, log, cycleVars>>

\* The records the normalizer is tried on.  A field is left out of a record
\* by the value Absent.
Absent == [t |-> "absent", i |-> 0, s |-> <<>>, f |-> NoFields, a |-> <<>>]
Field(key, v) == IF v = Absent THEN NoFields ELSE key :> v
Numbers ==
    {Absent, JNull, JInt(0), JInt(52), JStr(<<"5","1">>), JStr(TXT_abc)}
Charges ==
    {Absent, JNull, JInt(0), JInt(85), JInt(100), JInt(150), JInt(0 - 5),
     JStr(<<"8","5">>), JStr(TXT_abc)}
TXT_time_z ==
    <<"2","0","2","4","-","0","2","-","2","9","T","1","0",":","0","0",":","0","0","Z">>
TXT_time_plain ==
    <<"2","0","2","4","-","0","2","-","2","9","T","1","0",":","0","0",":","0","0">>
TXT_time_bad ==
    <<"2","0","2","3","-","0","2","-","2","9","T","1","0",":","0","0",":","0","0">>
Updates ==
    {Absent, JNull, JStr(<<>>), JStr(TXT_time_z), JStr(TXT_time_plain),
     JStr(TXT_time_bad), JStr(TXT_abc), JInt(5)}
Asset_1 == JDict([id |-> JInt(1), group |-> JInt(1)])
Asset_NoId == JDict([label |-> JStr(TXT_Autos)])
Asset_TextGroup == JDict([id |-> JInt(2), group |-> JStr(TXT_abc)])
StatusEntry(asset, history, spot) ==
    JDict(Field("Asset", asset) @@ Field("History", history) @@ Field("Spot", spot))
History(latitude, longitude, charge, time, HDOP, speed) ==
    JDict(Field("latitude", latitude) @@ Field("longitude", longitude)
          @@ Field("charge", charge) @@ Field("time", time)
          @@ Field("HDOP", HDOP) @@ Field("speed", speed))
TXT_Kade == <<"K","a","d","e">>
TXT_30 == <<"3","0">>
TXT_2984AR == <<"2","9","8","4","A","R">>
TXT_Delft == <<"D","e","l","f","t">>
TXT_NL == <<"N","L">>
Spot(street, number, zipcode, city, country) ==
    JDict(("origin" :> JInt(1)) @@ Field("street", street)
          @@ Field("number", number) @@ Field("zipcode", zipcode)
          @@ Field("city", city) @@ Field("country", country))
Spots ==
    {Spot(street, number, zipcode, city, country) :
        street \in {Absent, JStr(<<>>), JStr(TXT_Kade)},
        number \in {Absent, JStr(TXT_30), JInt(30), JInt(0)},
        zipcode \in {Absent, JStr(TXT_2984AR), JInt(2984)},
        city \in {Absent, JStr(TXT_Delft)},
        country \in {Absent, JNull, JStr(TXT_NL)}}
ParseEntries ==
    {StatusEntry(Asset_1, History(JInt(52), JInt(4), Absent, Absent, Absent, Absent),
                 spot) : spot \in Spots}
    \cup
    {StatusEntry(asset, History(JInt(52), JInt(4), charge, Absent, Absent, Absent),
                 Absent) :
        asset \in {Asset_1, Asset_NoId}, charge \in Charges}
    \cup {StatusEntry(Asset_1, History(n, JInt(4), Absent, Absent, Absent, Absent),
                      Absent) : n \in Numbers}
    \cup {StatusEntry(Asset_1, History(JInt(52), n, Absent, Absent, Absent, Absent),
                      Absent) : n \in Numbers}
    \cup {StatusEntry(Asset_1, History(JInt(52), JInt(4), Absent, n, Absent, Absent),
                      Absent) : n \in Numbers}
    \cup {StatusEntry(Asset_1, History(JInt(52), JInt(4), Absent, Absent, n, Absent),
                      Absent) : n \in Numbers}
    \cup {StatusEntry(Asset_1, History(JInt(52), JInt(4), Absent, Absent, Absent, n),
                      Absent) : n \in Numbers}
    \cup {StatusEntry(asset, history, spot) :
             asset \in {Absent, JNull, Asset_1, Asset_TextGroup},
             history \in {Absent, JNull, EmptyDict},
             spot \in {Absent, JNull, EmptyDict}}
Location(latitude, longitude, update, radius) ==
    JDict(("id" :> JInt(9)) @@ Field("latitude", latitude)
          @@ Field("longitude", longitude) @@ Field("update", update)
          @@ Field("radius", radius))
ParseLocations ==
    {Location(n, JInt(4), Absent, Absent) : n \in Numbers}
    \cup {Location(JInt(52), n, Absent, Absent) : n \in Numbers}
    \cup {Location(JInt(52), JInt(4), u, Absent) : u \in Updates}
    \cup {Location(JInt(52), JInt(4), Absent, n) : n \in Numbers}
    \cup {EmptyDict}

\* The normalizer called on a client whose group cache is empty or holds
\* one group.
InitParse ==
    /\ hass = [c \in Clients |-> TRUE]
    /\ creds = [c \in Clients |-> FullCreds]
    /\ session = [c \in Clients |-> "none"]
    /\ authenticated = [c \in Clients |-> FALSE]
    /\ groups_cache \in [Clients -> {EmptyMap, (1 :> JStr(TXT_Autos))}]
    /\ groups_cache[2] = EmptyMap
    /\ op = [c \in Clients |-> "none"]
    /\ fn = [c \in Clients |-> "none"]
    /\ pc = [c \in Clients |-> "idle"]
    /\ auth_result = [c \in Clients |-> FALSE]
    /\ retv = [c \in Clients |-> EmptyList]
    /\ ret = [c \in Clients |-> EmptyList]
    /\ log = [c \in Clients |-> <<>>]
    /\ status_list = [c \in Clients |-> EmptyList]
    /\ devices = [c \in Clients |-> EmptyMap]
    /\ idx = [c \in Clients |-> 1]
    /\ exc = [c \in Clients |-> NoExc]
    /\ failure = [c \in Clients |-> NoExc]
    /\ outcome = [c \in Clients |-> "None"]
    /\ data = [c \in Clients |-> EmptyMap]
    /\ empty_device_count = [c \in Clients |-> 0]
    /\ issues = {}
    /\ empty_run = [c \in Clients |-> 0]
    /\ empties_since_publish = [c \in Clients |-> 0]
    /\ at_start = [c \in Clients |->
                      [authenticated |-> FALSE, groups_cache |-> EmptyMap,
                       data |-> EmptyMap, empty_device_count |-> 0, issues |-> {}]]
    /\ auth_response = [c \in Clients |-> HttpError]
    /\ side_op = [c \in Clients |-> "none"]
    /\ side_pc = [c \in Clients |-> "idle"]
    /\ side_ret = [c \in Clients |-> TRUE]
    /\ side_response = [c \in Clients |-> HttpError]
    /\ side_log = [c \in Clients |-> <<>>]
    /\ side_start = [c \in Clients |->
                        [authenticated |-> FALSE, session |-> "none", gen |-> 0]]
    /\ closed = [c \in Clients |-> <<>>]
    /\ gen = [c \in Clients |-> 0]
    /\ parsed = [fn |-> "none", input |-> JNull, result |-> Ok(JNull)]
    /\ InitHost

ParseNext(c) ==
    \/ CallParseStatus(c, ParseEntries)
    \/ CallParseLocation(c, ParseLocations)

NextParse == \E c \in {1} : ParseNext(c)

SpecParse == InitParse /\ [][NextParse]_vars

\* A coordinator polling a vendor that sends a record without an Asset id.
Entry_NoId ==
    JDict([Asset |-> Asset_NoId,
           History |-> JDict([latitude |-> JInt(52), longitude |-> JInt(4)])])
NoIdResponses(f) ==
    IF f = "get_groups" THEN {HttpJson(JDict([groups |-> EmptyList]))}
    ELSE {HttpJson(JDict([StatusList |-> JList(L)])) :
             L \in SeqsUpTo({Entry_A, Entry_NoId}, MaxDevices)}

NoIdNext(o) ==
    \/ StartCycle(o)
    \/ FetchEnter(o)
    \/ AuthEnter(o)
    \/ AuthProbeDone(o)
    \/ AuthLoginResponse(o, LoginResponses)
    \/ AuthReturn(o)
    \/ IssueRequest(o)
    \/ FetchResponse(o, NoIdResponses(fn[o]))
    \/ FetchReturn(o)
    \/ CallUpdateGroups(o)
    \/ GroupsUpdate(o)
    \/ CallGetStatusList(o)
    \/ CheckEmpty(o)
    \/ NormalizeStep(o)
    \/ Publish(o)
    \/ HandleException(o)
    \/ Cancel(o)

NextNoId == \E o \in {1} : NoIdNext(o)

SpecNoId == Init /\ [][NextNoId]_vars

\* The groups the vendor is taken to send, and the ids looked up.
MaxFetched == 2
TXT_Vans == <<"V","a","n","s">>
Group_1Again == JDict([id |-> JStr(<<"1">>), label |-> JStr(TXT_Vans)])
Group_NullId == JDict([id |-> JNull, label |-> JStr(TXT_Vans)])
Group_NullLabel == JDict([id |-> JInt(3), label |-> JNull])
FetchedGroups ==
    {Group_1, Group_2, Group_1Again, Group_NullId, Group_NullLabel, Group_BadAbc}
GroupsResponses ==
    {HttpError, HttpStatus(500)}
    \cup {HttpJson(JDict([groups |-> JList(L)])) :
             L \in SeqsUpTo(FetchedGroups, MaxFetched)}
GroupIds ==
    {JNull, JInt(1), JInt(2), JInt(3), JInt(4), JStr(<<"1">>), JStr(TXT_abc)}

\* A client whose group cache is refreshed and read directly.
GroupsNext(c) ==
    \/ StartUpdateGroups(c)
    \/ FetchEnter(c)
    \/ AuthEnter(c)
    \/ AuthProbeDone(c)
    \/ AuthLoginResponse(c, LoginResponses)
    \/ AuthReturn(c)
    \/ IssueRequest(c)
    \/ FetchResponse(c, GroupsResponses)
    \/ FetchReturn(c)
    \/ GroupsRebuild(c)
    \/ CallGetGroupName(c, GroupIds)

NextGroups == \E c \in {1} : GroupsNext(c)

SpecGroups == Init /\ [][NextGroups]_vars

----------------------------------------------------------------------------
(***************************************************************************)
(* What is read off a state.                                               *)
(***************************************************************************)
InLog(c, event) == \E k \in 1..Len(log[c]) : log[c][k] = event
CountLog(c, event) == Cardinality({k \in 1..Len(log[c]) : log[c][k] = event})

\* The last cycle of o ran to an end that the host saw (it was not cancelled).
Ended(o) == outcome[o] \in {"Published", "AuthFailed", "TransientFailed"}
Failed(o) == outcome[o] \in {"AuthFailed", "TransientFailed"}

\* The mapping the for loop builds from a whole status list: one key per
\* device_id, a later record replacing an earlier one with the same key.
RECURSIVE MappingOf(_, _, _)
MappingOf(cache, items, n) ==
    IF n = 0 THEN EmptyMap
    ELSE LET rec == parse_status_as_device(cache, items[n]).val
         IN  Put(MappingOf(cache, items, n - 1), rec.device_id, rec)

\* The request to the endpoint was sent in this operation and ended in one
\* of the given ways.
RequestEnded(c, endpoint, kinds) ==
    \E k \in 1..(Len(log[c]) - 1) : log[c][k] = endpoint /\ log[c][k + 1] \in kinds

FailureKinds == {"transport error", "status not 200", "body not JSON"}

----------------------------------------------------------------------------
\* C1: a step either leaves the published snapshot as it is, or is the end
\* of a cycle as Published and replaces the snapshot by the mapping built
\* from the whole status list of that cycle; so a cycle that fails or is
\* cancelled leaves it, and no partly built mapping is ever visible.
C1_SnapshotWholeOrUntouched ==
    [][\A o \in Clients :
          \/ data'[o] = data[o]
          \/ /\ outcome[o] = "Running" /\ outcome'[o] = "Published"
             /\ data'[o] = MappingOf(groups_cache[o], IterItems(status_list[o]),
                                     Len(IterItems(status_list[o])))]_vars

\* C1: a cycle built one record and then failed, while the snapshot of an
\* earlier cycle, with two devices, stands.
C1_Witness ==
    /\ Failed(1)
    /\ Cardinality(DOMAIN devices[1]) = 1
    /\ Cardinality(DOMAIN data[1]) = 2

\* C2: a cycle that started with AuthState false and whose authenticate()
\* returned False ended in AuthFailed; it called neither update_groups_cache
\* nor a fetcher, and the group cache, the snapshot and the counter are what
\* they were when it started.
C2_RefusedLoginEndsAuthFailed ==
    \A o \in Clients :
        (Ended(o) /\ ~at_start[o].authenticated /\ ~auth_result[o]) =>
            /\ outcome[o] = "AuthFailed"
            /\ ~InLog(o, "update_groups_cache")
            /\ ~InLog(o, "get_groups")
            /\ ~InLog(o, "get_status_list")
            /\ groups_cache[o] = at_start[o].groups_cache
            /\ data[o] = at_start[o].data
            /\ empty_device_count[o] = at_start[o].empty_device_count

\* C2: the login request of a cycle was answered with a refusal and the
\* cycle has ended.
C2_Witness ==
    /\ Ended(1) /\ ~at_start[1].authenticated /\ ~auth_result[1]
    /\ InLog(1, "POST Login.json")
    /\ failure[1] = Exc("ConfigEntryAuthFailed", TXT_Authentication_failed)

\* C3: a cycle whose status-list request ended in a transport error (a
\* connection error or a timeout), a status other than 200 or a body that
\* is not JSON ended in TransientFailed.
C3_StatusFailureIsTransient ==
    \A o \in Clients :
        (Ended(o) /\ RequestEnded(o, "StatusList.json", FailureKinds)) =>
            outcome[o] = "TransientFailed"

\* The exception texts of the sample inputs that hold an authentication
\* term once lower-cased (401, 403, auth, unauthorized, forbidden), and
\* those that hold none.
AuthTextSamples ==
    {TXT_int_prefix \o t \o TXT_quote :
        t \in {TXT_x401, TXT_E403, TXT_Auth, TXT_Unauthorized}}
    \cup {TXT_float_prefix \o TXT_Forbidden \o TXT_quote}
OtherTextSamples ==
    {TXT_int_prefix \o TXT_abc \o TXT_quote,
     TXT_quote \o <<"s","t","r">> \o TXT_no_get}

\* C4: a cycle that failed on an exception other than ConfigEntryAuthFailed
\* ended in AuthFailed, with the authentication issue created, when the
\* text of the exception holds an authentication term once lower-cased, and
\* in TransientFailed without it otherwise; a ConfigEntryAuthFailed raised
\* inside the cycle reached the host as it was.
C4_ClassifiedByText ==
    \A o \in Clients :
        Failed(o) =>
            IF exc[o].type = "ConfigEntryAuthFailed"
            THEN outcome[o] = "AuthFailed" /\ failure[o] = exc[o]
            ELSE IF exc[o].text \in AuthTextSamples
            THEN /\ outcome[o] = "AuthFailed"
                 /\ failure[o].type = "ConfigEntryAuthFailed"
                 /\ InLog(o, "create_api_auth_issue")
                 /\ AuthIssue \in issues
            ELSE /\ exc[o].text \in OtherTextSamples
                 /\ outcome[o] = "TransientFailed"
                 /\ failure[o].type = "UpdateFailed"
                 /\ ~InLog(o, "create_api_auth_issue")

\* C4: normalization raised "could not convert string to float: 'Forbidden'",
\* whose term shows only after lower-casing, and the cycle ended AuthFailed.
C4_Witness ==
    /\ outcome[1] = "AuthFailed"
    /\ exc[1] = Exc("ValueError", TXT_float_prefix \o TXT_Forbidden \o TXT_quote)
    /\ AuthIssue \in issues

C6_KeysAreThisCyclesDevices ==
    \A o \in Clients :
        outcome[o] = "Published" =>
            DOMAIN data[o] =
                {parse_status_as_device(groups_cache[o],
                                        IterItems(status_list[o])[k]).val.device_id :
                    k \in 1..Len(IterItems(status_list[o]))}

\* C6: a cycle ended Published with a device, and a device of the snapshot
\* it started with is gone.
C6_Witness ==
    /\ outcome[1] = "Published"
    /\ DOMAIN data[1] # {}
    /\ \E k \in DOMAIN at_start[1].data : k \notin DOMAIN data[1]

\* C7: the cycles that raised the "no devices" notice are the cycles that
\* ended Published with an empty mapping as the third or a later one of an
\* unbroken run of such cycles.
C7_NoticeIffThirdOfRun ==
    \A o \in Clients :
        Ended(o) =>
            (InLog(o, "create_no_devices_issue")
                <=> (/\ outcome[o] = "Published"
                     /\ data[o] = EmptyMap
                     /\ empty_run[o] >= 3))

----------------------------------------------------------------------------
\* A direct call of a fetcher on c has returned.
Returned(c) == op[c] = "none" /\ pc[c] = "idle" /\ Len(log[c]) > 0

\* The fetcher's request ended in one of the given ways.
LastRequestEnded(c, kinds) ==
    \E f \in Fetchers : RequestEnded(c, Endpoint(f), kinds)

\* C9: what a fetcher returned is a list (C9 says more: a list of records);
\* it is [] when the request ended in a transport error, a status other
\* than 200 or a body that is not JSON.
C9_FetcherReturnsList ==
    \A c \in Clients :
        Returned(c) =>
            /\ IsList(ret[c])
            /\ LastRequestEnded(c, FailureKinds) => ret[c] = EmptyList

\* C10: a fetcher called with AuthState false called authenticate() once;
\* when that returned False the fetcher returned [], no request to a
\* resource endpoint was sent and AuthState is still false; this holds of
\* every call, however many went before.
C10_UnauthenticatedFetcher ==
    \A c \in Clients :
        (Returned(c) /\ ~at_start[c].authenticated) =>
            /\ CountLog(c, "authenticate") = 1
            /\ CountLog(c, "POST Login.json") <= 1
            /\ ~auth_result[c] =>
                  /\ ret[c] = EmptyList
                  /\ \A f \in Fetchers : ~InLog(c, Endpoint(f))
                  /\ ~authenticated[c]

\* C10: a fetcher was called with AuthState false, the login was refused
\* and the fetcher has returned.
C10_Witness ==
    /\ Returned(1) /\ ~at_start[1].authenticated /\ ~auth_result[1]
    /\ InLog(1, "POST Login.json")
    /\ InLog(1, "get_status_list")

----------------------------------------------------------------------------
(***************************************************************************)
(* The client called directly by overlapping tasks.                        *)
(***************************************************************************)
ResourceEndpoints == {Endpoint(f) : f \in Fetchers}

\* The second task's call has returned.
SideReturned(c) == side_pc[c] = "idle" /\ side_op[c] # "none"

\* C11: a request to the Assets, StatusList, UserLocationList or Groups
\* endpoint is sent only while the client's AuthState is true, also when a
\* logout() or close() of the same client is in flight: every step that
\* sends such a request starts and ends with the flag set.
C11_RequestsOnlyWhileAuthenticated ==
    [][\A c \in Clients :
          (/\ Len(log'[c]) = Len(log[c]) + 1
           /\ log'[c][Len(log'[c])] \in ResourceEndpoints)
             => authenticated[c] /\ authenticated'[c]]_vars

\* A fetcher's request is in flight and a logout() that overlapped it has
\* cleared the flag meanwhile.
C11_Witness ==
    /\ pc[1] = "req"
    /\ ~authenticated[1]
    /\ SideReturned(1) /\ side_op[1] = "logout" /\ side_ret[1]
\* A response of HTTP 200 whose JSON body holds a `user` object.
HoldsUserObject(r) ==
    /\ ~r.err /\ r.status = 200 /\ r.json_ok
    /\ IsDict(r.data) /\ HasKey(r.data, "user")
    /\ IsDict(r.data.f["user"])

\* The requests authenticate() has sent in the running operation.
AuthRequests(c) == CountLog(c, "GET probe") + CountLog(c, "POST Login.json")

\* authenticate() is returning on client c: it returns true exactly when
\* `succeeded`, has the flag set when it returns true, and has sent nothing
\* when a credential is empty.
AuthenticateReturns(c, succeeded) ==
    /\ auth_result[c] <=> succeeded
    /\ auth_result[c] => authenticated[c]
    /\ ~CredsComplete(c) => AuthRequests(c) = 0

\* C12 as stated: authenticate() returns true and sets AuthState exactly
\* when the three credentials are non-empty and the login POST answers 200
\* with a JSON body holding a `user` object, and sends no request when a
\* credential is empty.
C12_TrueIffUserObject ==
    \A c \in Clients :
        pc[c] = "auth_ret"
          => AuthenticateReturns(c, CredsComplete(c)
                                      /\ HoldsUserObject(auth_response[c]))

\* C12, amended: authenticate() returns true and sets AuthState exactly when
\* the three credentials are non-empty and the login POST answers 200 with
\* a JSON object whose `user` is a non-empty object; every other outcome
\* returns false; with an empty credential no request is sent.
C12_TrueIffNonEmptyUserObject ==
    \A c \in Clients :
        pc[c] = "auth_ret"
          => AuthenticateReturns(c, /\ CredsComplete(c)
                                    /\ HoldsUserObject(auth_response[c])
                                    /\ Truthy(auth_response[c].data.f["user"]))

\* A direct authenticate() on an unauthenticated client is returning true.
C12_Witness ==
    /\ pc[1] = "auth_ret" /\ op[1] = "authenticate"
    /\ ~at_start[1].authenticated
    /\ auth_result[1] /\ authenticated[1]

\* C13: whenever authenticate() returns false the AuthState is false, also
\* when it was true before the call.
C13_FalseLeavesUnauthenticated ==
    \A c \in Clients :
        (pc[c] = "auth_ret" /\ ~auth_result[c]) => ~authenticated[c]

\* A response of HTTP 200 whose JSON body has status "ok".
StatusOk(r) ==
    /\ ~r.err /\ r.status = 200 /\ r.json_ok
    /\ IsDict(r.data)
    /\ HasKey(r.data, "status") /\ r.data.f["status"] = JStr(TXT_ok)

CountSideLog(c, event) ==
    Cardinality({k \in 1..Len(side_log[c]) : side_log[c][k] = event})

\* logout() on client c has returned as C14 says it does.
LogoutReturned(c) ==
    IF side_start[c].authenticated
    THEN /\ CountSideLog(c, "POST Logout.json") = 1
         /\ side_ret[c] <=> StatusOk(side_response[c])
    ELSE /\ side_ret[c]
         /\ side_log[c] = <<>>

\* C14: logout() on an unauthenticated client returns true and sends no
\* request; on an authenticated one it sends one logout POST and returns
\* true, with the AuthState false, exactly when the response is 200 with
\* status "ok"; after every other response it returns false and the
\* AuthState is still true.
C14_LogoutContract ==
    [][\A c \in Clients :
          /\ (SideReturned(c) /\ side_op[c] = "logout")' => LogoutReturned(c)'
          /\ (side_op[c] = "logout" /\ side_pc[c] = "logout_req"
                /\ side_pc'[c] = "idle")
               => (authenticated'[c] <=> ~StatusOk(side_response'[c]))]_vars

\* A logout() of an authenticated client has been refused and has returned
\* false, and the client is still authenticated.
C14_Witness ==
    /\ SideReturned(1) /\ side_op[1] = "logout"
    /\ side_start[1].authenticated
    /\ ~side_ret[1] /\ authenticated[1]
    /\ side_response[1] = HttpJson(ErrorBody)

\* C15: the client never closes a session it did not create (one passed to
\* the constructor or taken from the host), and closes no session twice.
C15_OnlyOwnSessionsClosedOnce ==
    \A c \in Clients :
        \A k \in 1..Len(closed[c]) :
            /\ closed[c][k][1] = "own"
            /\ \A j \in 1..Len(closed[c]) : closed[c][j] = closed[c][k] => j = k

\* close() on client c returns with this step.
CloseReturns(c) ==
    /\ side_op'[c] = "close" /\ side_pc'[c] = "idle"
    /\ \/ side_pc[c] # "idle"
       \/ pc' = pc /\ log' = log

\* C16: when close() returns the AuthState is false whatever the logout
\* request came to, the logout was attempted exactly when the AuthState was
\* true as close() was entered, and the client holds no self-created
\* session.
C16_CloseContract ==
    [][\A c \in Clients :
          CloseReturns(c)
            => /\ ~authenticated'[c]
               /\ session'[c] # "own"
               /\ side_start'[c].authenticated
                    <=> CountSideLog(c, "POST Logout.json")' = 1]_vars

\* close() has returned on a client that was authenticated and held a
\* session of its own, after a logout request that failed.
C16_Witness ==
    /\ SideReturned(1) /\ side_op[1] = "close"
    /\ side_start[1].authenticated /\ side_start[1].session = "own"
    /\ ~side_ret[1]
    /\ ~authenticated[1] /\ session[1] = "none"
    /\ closed[1] = << <<"own", 0>> >>
----------------------------------------------------------------------------
(***************************************************************************)
(* The group cache.                                                        *)
(***************************************************************************)
\* update_groups_cache() called directly has completed on client c.
GroupsRefreshed(c) ==
    /\ Returned(c) /\ log[c][1] = "update_groups_cache"
    /\ exc[c] = NoExc

\* The positions in the fetched list of the groups whose id is group_id.
GroupsWithId(groups, group_id) ==
    {k \in 1..Len(groups.a) :
        /\ IsDict(groups.a[k])
        /\ HasKey(groups.a[k], "id")
        /\ ~PyInt(groups.a[k].f["id"]).raised
        /\ ~PyInt(group_id).raised
        /\ PyInt(groups.a[k].f["id"]).val = PyInt(group_id).val}

\* The label the fetched list gives for group_id: that of the last group
\* with the id, "" when it has none, and "" when no group has the id.
LabelIn(groups, group_id) ==
    IF GroupsWithId(groups, group_id) = {} THEN JStr(<<>>)
    ELSE LET k == CHOOSE n \in GroupsWithId(groups, group_id) :
                      \A j \in GroupsWithId(groups, group_id) : j <= n
         IN  IF HasKey(groups.a[k], "label") THEN groups.a[k].f["label"]
             ELSE JStr(<<>>)

\* After a completed update_groups_cache() the lookup of group_id gives the
\* label of the fetched list, without raising.
LookupMatches(c, group_id) ==
    /\ ~get_group_name(groups_cache[c], group_id).raised
    /\ get_group_name(groups_cache[c], group_id).val =
          (IF group_id = JNull THEN JStr(<<>>) ELSE LabelIn(retv[c], group_id))

\* C17: after update_groups_cache() completes, get_group_name(id) is, for
\* every id, the label of the group with that id in the list just fetched
\* ("" without a label), and "" for ids not in the list and for None, so no
\* earlier entry survives and groups with a null id are skipped; the cache
\* is empty when the fetch gave []; get_group_name never raises.
C17_CacheIsTheFetchedGroups ==
    /\ \A c \in Clients :
          GroupsRefreshed(c)
            => /\ \A group_id \in GroupIds : LookupMatches(c, group_id)
               /\ retv[c] = EmptyList => groups_cache[c] = EmptyMap
    /\ parsed.fn = "get_group_name" => ~parsed.result.raised

\* The same for the ids that are None, an integer or the text of one.
C17_ForNumericIds ==
    /\ \A c \in Clients :
          GroupsRefreshed(c)
            => /\ \A group_id \in GroupIds \ {JStr(TXT_abc)} :
                     LookupMatches(c, group_id)
               /\ retv[c] = EmptyList => groups_cache[c] = EmptyMap
    /\ (parsed.fn = "get_group_name" /\ parsed.input # JStr(TXT_abc))
          => ~parsed.result.raised
----------------------------------------------------------------------------
(***************************************************************************)
(* The normalizer.                                                         *)
(***************************************************************************)
Normalizers == {"parse_status_as_device", "parse_location_as_device"}

\* C18: parse_status_as_device and parse_location_as_device return a
\* snapshot and do not raise, whatever the record: also when latitude,
\* longitude, charge, HDOP, speed, time, update or radius is null or not a
\* number, and when Asset, History or Spot is null.
C18_NormalizerNeverRaises ==
    parsed.fn \in Normalizers => ~parsed.result.raised

\* The part of C18 that holds: a null Spot, and a time that is null or not a
\* number, do not make parse_status_as_device raise; such a time gives a
\* null last_seen.
C18_SpotAndTimeTolerated ==
    (/\ parsed.fn = "parse_status_as_device"
     /\ IsDict(parsed.input)
     /\ IsDict(Get(parsed.input, "Asset", EmptyDict))
     /\ Get(parsed.input, "Asset", EmptyDict) # Asset_TextGroup
     /\ ~Truthy(Get(parsed.input, "Spot", JNull))
     /\ Get(parsed.input, "History", EmptyDict)
           \in {EmptyDict}
               \cup {History(JInt(52), JInt(4), Absent, n, Absent, Absent) :
                       n \in Numbers})
      => /\ ~parsed.result.raised
         /\ Get(Get(parsed.input, "History", EmptyDict), "time", JNull)
               \in {JNull, JStr(TXT_abc), JInt(0)}
              => parsed.result.val.last_seen = JNull

\* C19: the published snapshot mapping never has an entry under the empty
\* device_id: a record whose Asset has no id yields no entry.
C19_NoEmptyDeviceId ==
    \A o \in Clients : <<>> \notin DOMAIN data[o]

\* C20: in the snapshots of parse_status_as_device, battery_level is null
\* exactly when the History block has no charge field, and else an integer
\* from 0 to 100.
C20_BatteryNullOrPercent ==
    (parsed.fn = "parse_status_as_device" /\ ~parsed.result.raised)
      => LET history == Get(parsed.input, "History", EmptyDict)
             battery_level == parsed.result.val.battery_level
         IN  /\ battery_level = JNull <=> ~HasKey(history, "charge")
             /\ battery_level # JNull
                  => battery_level.t = "int" /\ battery_level.i \in 0..100

\* What holds of battery_level: it is null when the charge is absent or
\* null, and else the charge as an integer, whatever its range.
C20_BatteryIsTheCharge ==
    (parsed.fn = "parse_status_as_device" /\ ~parsed.result.raised)
      => LET charge == Get(Get(parsed.input, "History", EmptyDict), "charge", JNull)
             battery_level == parsed.result.val.battery_level
         IN  IF charge = JNull THEN battery_level = JNull
             ELSE battery_level = JInt(PyFloat(charge).val)
\* The segments of an address: spot fields that are absent, null, empty or 0
\* count as absent.
Present(spot, key) == IsDict(spot) /\ Truthy(Get(spot, key, JNull))
TextOf(spot, key) == PyStr(Get(spot, key, JNull))
Segments(spot) ==
    LET street_number ==
            IF ~Present(spot, "street") THEN <<>>
            ELSE IF Present(spot, "number")
            THEN TextOf(spot, "street") \o <<" ">> \o TextOf(spot, "number")
            ELSE TextOf(spot, "street")
        zipcode_city ==
            IF Present(spot, "zipcode") /\ Present(spot, "city")
            THEN TextOf(spot, "zipcode") \o <<" ">> \o TextOf(spot, "city")
            ELSE IF Present(spot, "zipcode") THEN TextOf(spot, "zipcode")
            ELSE IF Present(spot, "city") THEN TextOf(spot, "city")
            ELSE <<>>
        country ==
            IF Present(spot, "country") THEN TextOf(spot, "country") ELSE <<>>
    IN  SelectSeq(<<street_number, zipcode_city, country>>,
                  LAMBDA segment : segment # <<>>)
StartsWith(text, prefix) ==
    Len(text) >= Len(prefix) /\ SubSeq(text, 1, Len(prefix)) = prefix
EndsWith(text, suffix) ==
    /\ Len(text) >= Len(suffix)
    /\ SubSeq(text, Len(text) - Len(suffix) + 1, Len(text)) = suffix

\* C21: the address of parse_status_as_device is the non-empty segments
\* "street number" (the street alone without a number), "zipcode city" and
\* "country" joined by ", " in that order, with no leading, trailing or
\* doubled separator; it is null, never the empty string, when the Spot block
\* is missing or yields no segment.
C21_AddressIsTheJoinedSegments ==
    (parsed.fn = "parse_status_as_device" /\ ~parsed.result.raised)
      => LET spot == Get(parsed.input, "Spot", JNull)
             produced == parsed.result.val.address
         IN  /\ produced # JStr(<<>>)
             /\ IF Segments(spot) = <<>> THEN produced = JNull
                ELSE /\ produced = JStr(JoinTexts(<<",", " ">>, Segments(spot)))
                     /\ ~StartsWith(produced.s, <<",", " ">>)
                     /\ ~EndsWith(produced.s, <<",", " ">>)
                     /\ ~Contains(<<",", " ", ",", " ">>, produced.s)

\* A record whose Spot has a street and a country but neither zipcode nor
\* city has been normalized.
C21_Witness ==
    /\ parsed.fn = "parse_status_as_device"
    /\ ~parsed.result.raised
    /\ parsed.result.val.address = JStr(TXT_Kade \o <<",", " ">> \o TXT_NL)
----------------------------------------------------------------------------
(***************************************************************************)
(* Two coordinators on one host, each with its own LocaAPI (coordinator.py *)
(* lines 35-54), polling and shutting down in one event loop.              *)
(***************************************************************************)
PairEntry(o) == IF o = 1 THEN Entry_A ELSE Entry_B
Entry_TextLatitude ==
    JDict([Asset |-> JDict([id |-> JInt(3)]),
           History |-> JDict([latitude |-> JStr(TXT_abc)])])
PairResponses(o, f) ==
    IF f = "get_groups"
    THEN {HttpJson(JDict([groups |-> JList(<<Group_1>>)]))}
    ELSE {HttpJson(JDict([StatusList |-> JList(<<PairEntry(o)>>)]))}
         \cup (IF o = 1
               THEN {HttpJson(JDict([StatusList |-> EmptyList])),
                     HttpJson(JDict([StatusList |-> JList(<<Entry_TextLatitude>>)]))}
               ELSE {})
PairLoginResponses(o) ==
    {HttpJson(JDict([user |-> UserObject]))}
    \cup (IF o = 1 THEN {HttpStatus(401)} ELSE {})
PairLogoutResponses ==
    {HttpError, HttpJson(JDict([status |-> JStr(TXT_ok)]))}

PairNext(o) ==
    \/ StartCycle(o)
    \/ FetchEnter(o)
    \/ AuthEnter(o)
    \/ AuthProbeDone(o)
    \/ AuthLoginResponse(o, PairLoginResponses(o))
    \/ AuthReturn(o)
    \/ IssueRequest(o)
    \/ FetchResponse(o, PairResponses(o, fn[o]))
    \/ FetchReturn(o)
    \/ CallUpdateGroups(o)
    \/ GroupsUpdate(o)
    \/ CallGetStatusList(o)
    \/ CheckEmpty(o)
    \/ NormalizeStep(o)
    \/ Publish(o)
    \/ HandleException(o)
    \/ o = 1 /\ pc[o] = "idle" /\ StartClose(o)
    \/ LogoutResponse(o, PairLogoutResponses)

NextPair == \E o \in Clients : PairNext(o)

SpecPair == Init /\ [][NextPair]_vars
\* What belongs to orchestrator o alone, and the places of its two tasks.
Owned(o) ==
    <<authenticated[o], groups_cache[o], data[o], empty_device_count[o]>>
Place(o) ==
    <<op[o], fn[o], pc[o], idx[o], log[o], outcome[o], side_op[o], side_pc[o],
      side_log[o], side_ret[o], side_response[o], side_start[o]>>

\* C22: with two orchestrators polling concurrently, a step of one
\* (authentication, group refresh, fetch, normalization, a failed cycle,
\* close) leaves the other's AuthState, group cache, published snapshot and
\* consecutive-empty counter as they were, in every interleaving.
C22_OthersStateUntouched ==
    [][\A o \in Clients :
          Owned(o)' # Owned(o)
            => /\ Place(o)' # Place(o)
               /\ \A p \in Clients \ {o} : Place(p)' = Place(p)]_vars

\* Orchestrator 2 has published its device with its cache refreshed while
\* orchestrator 1, closed after an empty cycle, has failed a later cycle.
C22_Witness ==
    /\ outcome[2] = "Published" /\ DOMAIN data[2] # {} /\ authenticated[2]
    /\ DOMAIN groups_cache[2] # {}
    /\ outcome[1] = "TransientFailed" /\ side_op[1] = "close"
    /\ empty_device_count[1] > 0
----------------------------------------------------------------------------
(***************************************************************************)
(* The order of the steps of a cycle.                                      *)
(***************************************************************************)
Positions(o, events) == {k \in 1..Len(log[o]) : log[o][k] \in events}
Before(S, T) == \A k \in S : \A j \in T : k < j
AuthEvents == {"authenticate", "GET probe", "POST Login.json"}
GroupEvents == {"update_groups_cache", "get_groups", "Groups.json"}
StatusEvents == {"get_status_list", "StatusList.json"}
ResponseKinds == {"transport error", "status not 200", "body not JSON", "200 JSON"}

\* The events of a published cycle of o are in the order authentication,
\* group refresh, status fetch, normalization, each one whole.
InOrder(o) ==
    /\ Before(Positions(o, AuthEvents), Positions(o, GroupEvents))
    /\ at_start[o].authenticated <=> Positions(o, AuthEvents) = {}
    /\ ~at_start[o].authenticated
         => Cardinality(Positions(o, {"POST Login.json"})) = 1
    /\ Cardinality(Positions(o, {"update_groups_cache"})) = 1
    /\ \A k \in Positions(o, {"Groups.json"}) :
          k < Len(log[o]) /\ log[o][k + 1] \in ResponseKinds
    /\ Before(Positions(o, GroupEvents), Positions(o, StatusEvents))
    /\ \A k \in Positions(o, {"Groups.json"}) :
          Before({k + 1}, Positions(o, StatusEvents))
    /\ Cardinality(Positions(o, {"get_status_list"})) = 1
    /\ \A k \in Positions(o, {"StatusList.json"}) :
          /\ k < Len(log[o]) /\ log[o][k + 1] \in ResponseKinds
          /\ Before({k + 1}, Positions(o, {"parse_status_as_device"}))
    /\ Before(Positions(o, StatusEvents), Positions(o, {"parse_status_as_device"}))
    /\ Cardinality(Positions(o, {"parse_status_as_device"}))
          = Len(IterItems(status_list[o]))

\* C23: a cycle that ends Published has run authentication (when the
\* AuthState was false at its start), the group refresh, the status fetch and
\* the normalization of every record in that order, each completed before
\* the next started; the group cache is written only by the group refresh of
\* the cycle, and every published record is a record of the status list
\* normalized with that cache.
C23_StepsInOrder ==
    [][\A o \in Clients :
          /\ (op[o] = "cycle" /\ groups_cache'[o] # groups_cache[o])
               => /\ pc[o] = "groups_update"
                  /\ groups_cache'[o] = update_groups_cache_body(retv[o]).cache
          /\ (op[o] = "cycle" /\ outcome'[o] = "Published" /\ pc'[o] = "idle")
               => /\ InOrder(o)
                  /\ \A k \in DOMAIN data'[o] :
                        \E n \in 1..Len(IterItems(status_list[o])) :
                           data'[o][k] =
                              parse_status_as_device(
                                 groups_cache[o],
                                 IterItems(status_list[o])[n]).val]_vars

\* A cycle that began unauthenticated with an empty cache has published two
\* records, one of them with the group name of the cache it refreshed.
C23_Witness ==
    /\ outcome[1] = "Published" /\ pc[1] = "idle"
    /\ ~at_start[1].authenticated
    /\ Cardinality(Positions(1, {"parse_status_as_device"})) = 2
    /\ at_start[1].groups_cache = EmptyMap
    /\ \E k \in DOMAIN data[1] : data[1][k].group_name = JStr(TXT_Autos)
----------------------------------------------------------------------------
(***************************************************************************)
(* A coordinator whose client is logged out or closed (async_shutdown,     *)
(* coordinator.py lines 133-136) while its poll cycle may be suspended in  *)
(* a request.  No poll is started once close() has been called.            *)
(***************************************************************************)
ShutdownResponses(f) ==
    IF f = "get_groups"
    THEN {HttpError, HttpJson(JDict([groups |-> JList(<<Group_1>>)]))}
    ELSE {HttpError, HttpStatus(401), HttpStatus(403),
          HttpJson(JDict([StatusList |-> EmptyList])),
          HttpJson(JDict([StatusList |-> JList(<<Entry_A>>)]))}
ShutdownLoginResponses ==
    {HttpStatus(401), HttpJson(JDict([user |-> UserObject]))}
ShutdownLogoutResponses ==
    {HttpError, HttpJson(JDict([status |-> JStr(TXT_ok)]))}

ShutdownNext(o) ==
    \/ side_op[o] # "close" /\ StartCycle(o)
    \/ FetchEnter(o)
    \/ AuthEnter(o)
    \/ AuthProbeDone(o)
    \/ AuthLoginResponse(o, ShutdownLoginResponses)
    \/ AuthReturn(o)
    \/ IssueRequest(o)
    \/ FetchResponse(o, ShutdownResponses(fn[o]))
    \/ FetchReturn(o)
    \/ CallUpdateGroups(o)
    \/ GroupsUpdate(o)
    \/ CallGetStatusList(o)
    \/ CheckEmpty(o)
    \/ NormalizeStep(o)
    \/ Publish(o)
    \/ HandleException(o)
    \/ side_op[o] # "close" /\ StartLogout(o)
    \/ side_op[o] # "close" /\ StartClose(o)
    \/ LogoutResponse(o, ShutdownLogoutResponses)

NextShutdown == \E o \in {1} : ShutdownNext(o)

SpecShutdown == Init /\ [][NextShutdown]_vars

\* C24: when the status list is empty and the AuthState is false at the
\* check, the authentication notice is raised and the cycle ends AuthFailed
\* with "Authentication required"; nothing is published and the
\* consecutive-empty counter is not incremented.
C24_EmptyWhileUnauthenticated ==
    [][\A o \in Clients :
          /\ (/\ pc[o] = "check_empty" /\ pc'[o] # "check_empty"
              /\ ~Truthy(status_list[o]) /\ ~is_authenticated(o))
               => /\ pc'[o] = "raise"
                  /\ exc'[o] = Exc("ConfigEntryAuthFailed",
                                   TXT_Authentication_required)
                  /\ AuthIssue \in issues'
                  /\ empty_device_count'[o] = empty_device_count[o]
                  /\ data'[o] = data[o]
          /\ (/\ pc[o] = "raise" /\ pc'[o] # "raise"
              /\ exc[o].type = "ConfigEntryAuthFailed")
               => /\ outcome'[o] = "AuthFailed"
                  /\ failure'[o] = exc[o]
                  /\ issues' = issues
                  /\ empty_device_count'[o] = empty_device_count[o]
                  /\ data'[o] = data[o]]_vars

\* A cycle that began authenticated with a device published was logged out
\* while suspended, got an empty list and ended AuthFailed with the notice.
C24_Witness ==
    /\ outcome[1] = "AuthFailed" /\ pc[1] = "idle"
    /\ at_start[1].authenticated /\ ~authenticated[1]
    /\ InLog(1, "StatusList.json") /\ InLog(1, "create_api_auth_issue")
    /\ failure[1] = Exc("ConfigEntryAuthFailed", TXT_Authentication_required)
    /\ AuthIssue \in issues
    /\ DOMAIN data[1] # {}
----------------------------------------------------------------------------
(***************************************************************************)
(* A coordinator that the host polls again and again: every poll tick      *)
(* comes and every started cycle runs on until it ends.                    *)
(***************************************************************************)
RecoverResponses(f) ==
    IF f = "get_groups"
    THEN {HttpJson(JDict([groups |-> JList(<<Group_1>>)]))}
    ELSE {HttpError, HttpStatus(500),
          HttpJson(JDict([StatusList |-> JList(<<Entry_A>>)])),
          HttpJson(JDict([StatusList |-> JList(<<Entry_A, Entry_TextLatitude>>)]))}
RecoverLoginResponses ==
    {HttpError, HttpJson(JDict([user |-> UserObject]))}

RecoverNext(o) ==
    \/ StartCycle(o)
    \/ FetchEnter(o)
    \/ AuthEnter(o)
    \/ AuthProbeDone(o)
    \/ AuthLoginResponse(o, RecoverLoginResponses)
    \/ AuthReturn(o)
    \/ IssueRequest(o)
    \/ FetchResponse(o, RecoverResponses(fn[o]))
    \/ FetchReturn(o)
    \/ CallUpdateGroups(o)
    \/ GroupsUpdate(o)
    \/ CallGetStatusList(o)
    \/ CheckEmpty(o)
    \/ NormalizeStep(o)
    \/ Publish(o)
    \/ HandleException(o)

NextRecover == \E o \in {1} : RecoverNext(o)

SpecRecover == Init /\ [][NextRecover]_vars /\ WF_vars(NextRecover)

\* A step in which a request ends without success: a transport error, a
\* status other than 200 or a body that is not JSON for a fetcher, a login
\* that is refused.
RequestFails ==
    \E o \in Clients :
       \/ /\ pc[o] = "req" /\ pc'[o] # "req"
          /\ log'[o][Len(log'[o])] \in FailureKinds
       \/ /\ pc[o] = "auth_login" /\ pc'[o] # "auth_login"
          /\ ~auth_result'[o]

\* C25 (recovery): under fair poll ticks, if from some point on every
\* request succeeds, a cycle that ended TransientFailed is followed by a
\* cycle that ends Published with the devices of its status list.
C25_RecoversOnceRequestsSucceed ==
    (<>[][~RequestFails]_vars)
      => \A o \in {1} :
            (outcome[o] = "TransientFailed")
              ~> (outcome[o] = "Published" /\ data[o] = devices[o]
                  /\ DOMAIN data[o] # {})

\* C25 (no retry, not sticky): a fetcher call sends at most one request to
\* its resource endpoint, and a cycle that has ended TransientFailed leaves
\* the orchestrator idle with the next poll free to start.
C25_OneRequestAndIdleAgain ==
    \A o \in Clients :
       /\ \A f \in Fetchers :
             CountLog(o, Endpoint(f)) <= CountLog(o, f)
       /\ (outcome[o] = "TransientFailed")
            => /\ pc[o] = "idle" /\ op[o] = "none"
               /\ ENABLED StartCycle(o)
\* C26: the AuthState is set only by the login answer inside authenticate()
\* and cleared only by logout() and close(); the fetchers, the group refresh,
\* get_group_name and the normalizer leave it as it is.  So a fetcher whose
\* request is answered with a status other than 200 leaves the AuthState
\* true, and the cycle that follows starts at the group refresh without
\* authenticating.
C26_AuthStateFrame ==
    [][\A o \in Clients :
          /\ authenticated'[o] # authenticated[o]
               => \/ pc[o] = "auth_login" /\ authenticated'[o]
                  \/ side_pc[o] = "logout_req" /\ ~authenticated'[o]
                  \/ side_op'[o] = "close" /\ side_pc[o] = "idle"
                       /\ ~authenticated'[o]
          /\ (pc[o] = "idle" /\ op'[o] = "cycle" /\ authenticated[o]
              /\ InLog(o, "status not 200"))
               => /\ pc'[o] = "call_groups"
                  /\ authenticated'[o]]_vars

\* A client that was never logged out or closed: a cycle that began
\* authenticated is past a status fetch answered with a status other than
\* 200, without a login, and the AuthState is still true.
C26_Witness ==
    /\ side_op[1] = "none" /\ at_start[1].authenticated
    /\ outcome[1] = "Published"
    /\ InLog(1, "status not 200") /\ ~InLog(1, "POST Login.json")
    /\ authenticated[1]
----------------------------------------------------------------------------
(***************************************************************************)
(* get_status_list on the bodies of a 200 answer (api.py lines 319-365).   *)
(***************************************************************************)
\* get_status_list() has received the 200 answer `body` and returns.
CallStatusShape(c, bodies) ==
    /\ MayRun(c) /\ pc[c] = "idle"
    /\ \E body \in bodies :
          parsed' = [fn |-> "get_status_list", input |-> body,
                     result |-> Ok(get_status_list_result(HttpJson(body)))]
    /\ UNCHANGED <<hostVars, side_op, side_pc, side_ret, side_response, side_log, side_start,
                   closed, gen, auth_response, clientVars, op, fn, pc, auth_result,
                   retv, ret, log, cycleVars>>

ShapeBody(StatusList, status, devs, message) ==
    JDict(Field("StatusList", StatusList) @@ Field("status", status)
          @@ Field("devices", devs) @@ Field("message", message))
ShapeBodies ==
    {ShapeBody(StatusList, status, devs, message) :
        StatusList \in {Absent, JNull, EmptyList, JList(<<Entry_A>>), JStr(TXT_abc),
                        JDict([a |-> Entry_A])},
        status \in {Absent, JStr(TXT_ok), JStr(TXT_Failed)},
        devs \in {Absent, JNull, EmptyList, JList(<<Entry_B>>), JStr(TXT_abc),
                     JDict([a |-> Entry_B]), EmptyDict, JInt(5)},
        message \in {Absent, JStr(TXT_Failed)}}
    \cup {EmptyList, JList(<<Entry_A>>), JList(<<Entry_A, Entry_B>>),
          JNull, JStr(TXT_abc), JInt(5)}

ShapesNext(c) == CallStatusShape(c, ShapeBodies)

NextShapes == \E c \in {1} : ShapesNext(c)

SpecShapes == Init /\ [][NextShapes]_vars

\* The shapes of a StatusList.json body, in the order they are tried.
\* `devices` is non-empty when it is a list, a dict or a text with something
\* in it.
BareArray(body) == IsList(body)
ListUnderStatusList(body) ==
    IsDict(body) /\ IsList(Get(body, "StatusList", JNull))
OkWithDevices(body) ==
    /\ IsDict(body)
    /\ Get(body, "status", JNull) = JStr(<<"o", "k">>)
    /\ Get(body, "devices", JNull).t \in {"list", "dict", "str"}
    /\ Get(body, "devices", JNull) \notin {EmptyList, EmptyDict, JStr(<<>>)}
ListUnderDevices(body) ==
    IsDict(body) /\ IsList(Get(body, "devices", JNull))

\* C27: for a 200 answer get_status_list returns the body when it is a bare
\* array, else the list under StatusList, else the non-empty devices of a
\* body with status "ok", else the list under devices: the first of these
\* shapes that matches decides; a dict that matches none yields [].
C27_FirstShapeWins ==
    (parsed.fn = "get_status_list" /\ (IsList(parsed.input) \/ IsDict(parsed.input)))
      => LET body == parsed.input
             returned == parsed.result.val
         IN  /\ ~parsed.result.raised
             /\ returned =
                  IF BareArray(body) THEN body
                  ELSE IF ListUnderStatusList(body) THEN body.f["StatusList"]
                  ELSE IF OkWithDevices(body) THEN body.f["devices"]
                  ELSE IF ListUnderDevices(body) THEN body.f["devices"]
                  ELSE EmptyList

\* A body that matches the second, the third and the fourth shape has been
\* answered with the list under StatusList.
C27_Witness ==
    /\ parsed.fn = "get_status_list"
    /\ ListUnderStatusList(parsed.input) /\ OkWithDevices(parsed.input)
    /\ ListUnderDevices(parsed.input)
    /\ parsed.result.val = JList(<<Entry_A>>)
    /\ parsed.input.f["devices"] = JList(<<Entry_B>>)
\* close() has been called on the client of o and has returned.
CloseCompleted(o) == side_op[o] = "close" /\ side_pc[o] = "idle"

\* C28: once close() has completed, the steps that remain of a poll cycle
\* that was suspended in a request start no authentication, take no new
\* session and leave the AuthState false.
C28_StaysShutDown ==
    [][\A o \in Clients :
          CloseCompleted(o)
            => /\ ~(pc[o] # "auth_probe" /\ pc'[o] = "auth_probe")
               /\ session'[o] = session[o]
               /\ ~authenticated'[o]]_vars
\* The last cycle of o, which has ended, raised the notice and the notice is
\* still in the registry.
RaisedBy(o, notice) ==
    /\ pc[o] = "idle" /\ notice \in issues
    /\ IF notice = NoDevicesIssue THEN InLog(o, "create_no_devices_issue")
       ELSE InLog(o, "create_api_auth_issue")

\* C29: with two orchestrators on one host, a "no devices" notice or an
\* authentication notice raised by a cycle of one credential set is not
\* removed by a step of the other credential set.
C29_NoticeOutlivesTheOthersCycle ==
    [][\A o \in Clients : \A p \in Clients \ {o} :
          \A notice \in {NoDevicesIssue, AuthIssue} :
             (RaisedBy(o, notice) /\ Place(p)' # Place(p))
               => notice \in issues']_vars
----------------------------------------------------------------------------
(***************************************************************************)
(* The config entries of the domain and its services (__init__.py,         *)
(* services.py).  A config entry is "absent" (not configured),             *)
(* "not_loaded", "loaded" (set up), "setup_retry" (its set-up raised) or   *)
(* "failed_unload".                                                        *)
(***************************************************************************)
Host(e, s) == [config_entries |-> e, services |-> s]

\* len(hass.config_entries.async_entries(DOMAIN)): the configured entries,
\* set up or not
async_entries(host) == {e \in Entries : host.config_entries[e] # "absent"}

\* async_setup_services(), services.py lines 35-125
async_setup_services(host) == Host(host.config_entries, ServiceNames)

\* async_unload_services(), services.py lines 128-132
async_unload_services(host) == Host(host.config_entries, {})

\* async_setup_entry(), __init__.py lines 15-32: the first refresh raises
\* (refresh_ok is false) or the entry is set up and the services are
\* registered when the domain has one config entry.
async_setup_entry(host, entry, refresh_ok) ==
    IF ~refresh_ok
    THEN Host([host.config_entries EXCEPT ![entry] = "setup_retry"], host.services)
    ELSE LET up == Host([host.config_entries EXCEPT ![entry] = "loaded"],
                        host.services)
         IN  IF Cardinality(async_entries(up)) = 1
             THEN async_setup_services(up)
             ELSE up

\* async_unload_entry(), __init__.py lines 35-45
async_unload_entry(host, entry, unload_ok) ==
    IF ~unload_ok
    THEN Host([host.config_entries EXCEPT ![entry] = "failed_unload"],
              host.services)
    ELSE LET down == Host([host.config_entries EXCEPT ![entry] = "not_loaded"],
                          host.services)
         IN  IF Cardinality(async_entries(down)) = 1
             THEN async_unload_services(down)
             ELSE down

\* async_reload_entry(), __init__.py lines 48-51: the unload, then the
\* set-up; the result of the unload is not looked at.
async_reload_entry(host, entry, unload_ok, refresh_ok) ==
    async_setup_entry(async_unload_entry(host, entry, unload_ok), entry,
                      refresh_ok)

HostNow == Host(config_entries, services)
SetHost(host) ==
    /\ config_entries' = host.config_entries
    /\ services' = host.services
    /\ UNCHANGED <<hass, creds, authenticated, session, groups_cache, op, fn, pc,
                   auth_result, retv, ret, log, cycleVars, callVars,
                   auth_response>>

\* The user adds a config entry; the host sets it up afterwards.
AddEntry(entry) ==
    /\ config_entries[entry] = "absent"
    /\ SetHost(Host([config_entries EXCEPT ![entry] = "not_loaded"], services))

\* The user removes a config entry that is not set up.
RemoveEntry(entry) ==
    /\ config_entries[entry] \in {"not_loaded", "setup_retry"}
    /\ SetHost(Host([config_entries EXCEPT ![entry] = "absent"], services))

\* The host sets up a config entry: at start-up, after it was added, or on
\* a retry.
SetupEntry(entry) ==
    /\ config_entries[entry] \in {"not_loaded", "setup_retry"}
    /\ \E refresh_ok \in BOOLEAN :
          SetHost(async_setup_entry(HostNow, entry, refresh_ok))

\* The host unloads a config entry that is set up.
UnloadEntry(entry) ==
    /\ config_entries[entry] = "loaded"
    /\ \E unload_ok \in BOOLEAN :
          SetHost(async_unload_entry(HostNow, entry, unload_ok))

\* A config entry that is set up is reloaded.
ReloadEntry(entry) ==
    /\ config_entries[entry] = "loaded"
    /\ \E unload_ok \in BOOLEAN, refresh_ok \in BOOLEAN :
          SetHost(async_reload_entry(HostNow, entry, unload_ok, refresh_ok))

\* The host starts with any of the entries configured and none set up.
InitServices ==
    /\ hass = [c \in Clients |-> TRUE]
    /\ creds = [c \in Clients |-> FullCreds]
    /\ session = [c \in Clients |-> "none"]
    /\ InitTasks
    /\ config_entries \in [Entries -> {"absent", "not_loaded"}]
    /\ services = {}

ServicesNext(entry) ==
    \/ AddEntry(entry)
    \/ RemoveEntry(entry)
    \/ SetupEntry(entry)
    \/ UnloadEntry(entry)
    \/ ReloadEntry(entry)

NextServices == \E entry \in Entries : ServicesNext(entry)

SpecServices == InitServices /\ [][NextServices]_vars

\* C30: whatever the set-ups, unloads and reloads were, and however many
\* entries were configured at the start, both services are registered while
\* an entry is set up and none is registered when no entry is set up.
C30_ServicesIffAnEntryIsSetUp ==
    /\ (\E e \in Entries : config_entries[e] = "loaded")
         => services = ServiceNames
    /\ (\A e \in Entries : config_entries[e] \notin {"loaded", "failed_unload"})
         => services = {}
=============================================================================
